---- MODULE Spec2Model ----
(***************************************************************************)
(* The transcoding session manager of src/backend/src/hls-transcoder.ts    *)
(* (createHLSTranscoder): the session registry, the port pool, and the     *)
(* start / stop / cleanup calls with the events they wait for.             *)
(*                                                                         *)
(* Scheduling.  Node runs one callback at a time.  A call runs without     *)
(* interruption up to an await on an event of the outside world (a file    *)
(* system answer, the child's 'spawn' / 'error' / 'exit' event, an answer  *)
(* of the media worker, a timer).  Each action below is one such           *)
(* uninterrupted run.  An await on an async function that holds no such    *)
(* event (getAvailablePort, setupRtpReceiversWithForwarding) only yields   *)
(* to the microtask queue and is part of the run.                          *)
(*                                                                         *)
(* Session objects.  A TranscodingSession is a JavaScript object; the      *)
(* closures of a start call and of the process handlers keep it alive      *)
(* after state.sessions has dropped it.  obj is the sequence of all        *)
(* session objects ever created, sessions maps an id to the index of the   *)
(* object registered under it (0: none).                                   *)
(***************************************************************************)
EXTENDS Integers, Sequences, FiniteSets

\* Bound of the model: the session objects created (startTranscoding calls that
\* get past ensureDirectoryExists or still await it).
MaxObj == 2

\* DEFAULT_HLS_CONFIG.baseRtpPort
DefaultBaseRtpPort == 20000

\* The session ids the callers use.
Ids == {"s1", "s2"}

\* baseRtpPort values a caller may configure (createHLSTranscoder(customConfig)).
ConfiguredBases == {DefaultBaseRtpPort, DefaultBaseRtpPort + 1}

Kinds == {"video", "audio"}

\* The producers argument: which kinds producers.find(...) finds.
ProducerSets == {<<TRUE, TRUE>>, <<TRUE, FALSE>>, <<FALSE, TRUE>>}

VARIABLES
    baseRtpPort,  \* state.config.baseRtpPort
    usedPorts,    \* state.usedPorts
    sessions,     \* state.sessions: id -> index into obj, 0 when absent
    obj,          \* the TranscodingSession objects, in creation order
    startPc,      \* per object: where the startTranscoding call that created it stands
    catchOn,      \* per object: the object whose stop its start's catch block awaits (0: none)
    stopPc,       \* per object: "idle", "wait" (a stop awaits exit or the grace timer), "done"
    pending,      \* per id: startTranscoding calls awaiting ensureDirectoryExists
    cleanupCall,  \* the latest cleanup() call: the stops its Promise.all still awaits
    ingest,       \* per object: session.stats, and the closures of socket recovery
                  \* and of waitForRtpFlow that refer to the session
    adaptive,     \* the startAdaptiveTranscoding call and the transcoders it created
    batch,        \* the closure of a forwarder made by createBatchedRtpForwarder
    trip,         \* a caller that starts a session and then stops it: what it
                  \* read from the manager before, and where it stands
    now           \* Date.now(), in ms

vars == <<baseRtpPort, usedPorts, sessions, obj, startPc, catchOn, stopPc, pending,
          cleanupCall, ingest, adaptive, batch, trip, now>>

Objs == 1..Len(obj)

Tracked(o) == sessions[obj[o].id] = o

----------------------------------------------------------------------------
\* getAvailablePort: the while loop.
RECURSIVE NextFreePort(_, _)
NextFreePort(port, used) ==
    IF port \in used THEN NextFreePort(port + 2, used) ELSE port

\* A getAvailablePort that does not skip the reserved ports.
getAvailablePortNoSkip(used, base) ==
    [port |-> base, used |-> used \cup {base, base + 1}]

\* A getAvailablePort that goes past every reserved port, so that a released
\* pair below the highest one is not handed out again.
RECURSIVE FirstAbove(_, _)
FirstAbove(port, used) ==
    IF \E p \in used : p >= port THEN FirstAbove(port + 2, used) ELSE port

getAvailablePortPastHighest(used, base) ==
    LET port == FirstAbove(base, used)
    IN  [port |-> port, used |-> used \cup {port, port + 1}]

\* getAvailablePort: the port returned and the reserved set it leaves.
getAvailablePort(used, base) ==
    LET port == NextFreePort(base, used)
    IN  [port |-> port, used |-> used \cup {port, port + 1}]

\* An allocation whose audio search does not see the video pair just reserved.
AllocatePortsStale(hasVideo, hasAudio, used, base) ==
    LET v == IF hasVideo THEN getAvailablePort(used, base)
             ELSE [port |-> 0, used |-> used]
        a == IF hasAudio THEN getAvailablePort(used, base)
             ELSE [port |-> 0, used |-> used]
    IN  [video |-> v.port, audio |-> a.port, used |-> v.used \cup a.used]

\* startTranscoding, "Allocate RTP ports": video first, then audio; 0 for an absent kind.
AllocatePorts(hasVideo, hasAudio, used, base) ==
    LET v == IF hasVideo THEN getAvailablePort(used, base)
             ELSE [port |-> 0, used |-> used]
        a == IF hasAudio THEN getAvailablePort(v.used, base)
             ELSE [port |-> 0, used |-> v.used]
    IN  [video |-> v.port, audio |-> a.port, used |-> a.used]

\* startTranscoding, "Create session": the object literal.
NewSession(id, hasVideo, hasAudio, ports) ==
    [id |-> id,
     process |-> "null",
     signal |-> "none",
     isActive |-> TRUE,
     rtpPorts |-> [video |-> ports.video, audio |-> ports.audio],
     rtpSockets |-> [video |-> "none", audio |-> "none"],
     producers |-> [video |-> hasVideo, audio |-> hasAudio],
     consumers |-> [video |-> "none", audio |-> "none"],
     restartTimer |-> FALSE]

\* startTranscoding, "Create session": stats of the object literal.  recovery
\* and replaced describe, per kind, the socket recovery of the session: no
\* recovery pending / the 1 s timer armed by the 'error' handler / a new socket
\* created and its bind pending; and whether the socket in session.rtpSockets
\* is a replacement installed by attemptSocketRecovery.  recoverPc is where a
\* recoverSession call for the session stands ("none": no call suspended).
\* written counts the writes to the stdin of the session's process and the
\* bytes written.
\* bind is the outcome of the bind of the socket in session.rtpSockets
\* ("none": no socket, "bound", or "failed").
\* lastPacketTime is session.stats.lastPacketTime (ms, 0 at creation).
\* flow is the closure of waitForRtpFlow: initialPacketCount, the time since
\* startTime (ms) at its latest poll, and timeoutMs.
\* orphan is the child that session.process referred to before recoverSession
\* replaced it: "none", "running" (its handlers still refer to the session),
\* or "awaited" (running, and a stopTranscoding awaits its 'exit').
NewIngest ==
    [stats |-> [packetsReceived |-> 0, bytesReceived |-> 0],
     recovery |-> [video |-> "none", audio |-> "none"],
     replaced |-> [video |-> FALSE, audio |-> FALSE],
     recoverPc |-> "none",
     orphan |-> "none",
     flow |-> [initial |-> 0, elapsed |-> 0, timeoutMs |-> 0],
     bind |-> [video |-> "none", audio |-> "none"],
     written |-> [writes |-> 0, bytes |-> 0],
     lastPacketTime |-> 0]

\* synchronizeStreams: the timeout handed to waitForRtpFlow, 3 s with both
\* kinds and 2 s with one.
SyncTimeoutBothMs == 3000
SyncTimeoutSingleMs == 2000

FlowTimeoutOf(s) ==
    IF s.producers.video /\ s.producers.audio
    THEN SyncTimeoutBothMs ELSE SyncTimeoutSingleMs

\* waitForRtpFlow is entered when connectProducersToRtp has made its last
\* connection (pc = "sync"): startTime and initialPacketCount are taken.
EnterSync(g, s, pc) ==
    IF pc = "sync"
    THEN [g EXCEPT !.flow = [initial |-> g.stats.packetsReceived,
                             elapsed |-> 0,
                             timeoutMs |-> FlowTimeoutOf(s)]]
    ELSE g

----------------------------------------------------------------------------
\* The calls on handles of Node and of the media worker that the manager makes.

\* consumer.close() / transport.close() (mediasoup): closes once, does nothing when closed.
MediaClose(c) == IF c = "open" THEN "closed" ELSE c

\* dgram Socket.close(): closes an open socket; on a closed one it throws
\* ERR_SOCKET_DGRAM_NOT_RUNNING (the socket's health check), see StopThrows.
SocketClose(k) == IF k = "open" THEN "closed" ELSE k

\* ChildProcess.kill(sig): delivers the signal and sets `killed` when the child
\* still runs; returns false and changes nothing once it has exited.
\* signal # "none" is the child's `killed` flag.
ChildKill(s, sig) ==
    IF s.process = "running" THEN [s EXCEPT !.signal = sig] ELSE s

----------------------------------------------------------------------------
\* stopTranscoding, from "Mark as inactive first" to the wait for the exit.

\* A teardown that tolerates closed sockets.
StopNeverThrows(s) == FALSE

\* The close() of "Close RTP sockets" throws when a socket of the table was
\* closed before; the catch block of stopTranscoding re-throws.
StopThrows(s) ==
    \/ s.rtpSockets.video = "closed"
    \/ s.rtpSockets.audio = "closed"

\* A release that forgets the control ports.
ReleasedDataPortsOnly(s) ==
    {s.rtpPorts.video, s.rtpPorts.audio}

\* "Release RTP ports": the four deletes (0 and 1 for an absent kind).
ReleasedPorts(s) ==
    {s.rtpPorts.video, s.rtpPorts.video + 1, s.rtpPorts.audio, s.rtpPorts.audio + 1}

\* isActive = false, consumers and transports closed, sockets closed up to the
\* close() that throws.
StopTeardown(s) ==
    [s EXCEPT !.isActive = FALSE,
              !.consumers = [k \in Kinds |-> MediaClose(s.consumers[k])],
              !.rtpSockets =
                  [video |-> SocketClose(s.rtpSockets.video),
                   audio |-> IF s.rtpSockets.video = "closed"
                             THEN s.rtpSockets.audio
                             ELSE SocketClose(s.rtpSockets.audio)]]

\* The session object after the synchronous part of stopTranscoding.
SessAfterStop(s) ==
    IF StopThrows(s) \/ s.process = "null"
    THEN StopTeardown(s)
    ELSE ChildKill(StopTeardown(s), "SIGTERM")

\* The stop goes on to await the child's exit or the 5 s timer.
StopWaits(s) == ~StopThrows(s) /\ s.process # "null"

\* The stop reaches state.sessions.delete without awaiting anything.
StopCompletesSync(s) == ~StopThrows(s) /\ s.process = "null"

\* A teardown that releases the ports before it closes the sockets.
StopStepsPortsFirst(s) ==
    <<"markInactive", "releasePorts">>
    \o (IF s.rtpSockets.video # "none" THEN <<"closeSocket">> ELSE <<>>)
    \o (IF s.rtpSockets.video = "closed" THEN <<"throw">>
        ELSE (IF s.rtpSockets.audio # "none" THEN <<"closeSocket">> ELSE <<>>)
             \o (IF s.rtpSockets.audio = "closed" THEN <<"throw">>
                 ELSE IF s.process # "null" THEN <<"SIGTERM", "await">>
                      ELSE <<"delete">>))

\* The statements one stopTranscoding call executes for session s before it
\* suspends or ends, in program order.  A transport is stored together with
\* its consumer (connectProducersToRtp), so the two are present together.
StopSteps(s) ==
    <<"markInactive">>
    \o (IF s.consumers.video # "none" THEN <<"closeConsumer">> ELSE <<>>)
    \o (IF s.consumers.audio # "none" THEN <<"closeConsumer">> ELSE <<>>)
    \o (IF s.consumers.video # "none" THEN <<"closeTransport">> ELSE <<>>)
    \o (IF s.consumers.audio # "none" THEN <<"closeTransport">> ELSE <<>>)
    \o (IF s.rtpSockets.video # "none" THEN <<"closeSocket">> ELSE <<>>)
    \o (IF s.rtpSockets.video = "closed" THEN <<"throw">>
        ELSE (IF s.rtpSockets.audio # "none" THEN <<"closeSocket">> ELSE <<>>)
             \o (IF s.rtpSockets.audio = "closed" THEN <<"throw">>
                 ELSE <<"releasePorts">>
                      \o (IF s.process # "null" THEN <<"SIGTERM", "await">>
                          ELSE <<"delete">>)))

\* The synchronous part of one stopTranscoding call for each object of T
\* (objects registered under the ids the calls were given).
StopCalls(T) ==
    /\ obj' = [o \in Objs |-> IF o \in T THEN SessAfterStop(obj[o]) ELSE obj[o]]
    /\ usedPorts' = usedPorts \
           UNION {ReleasedPorts(obj[o]) : o \in {t \in T : ~StopThrows(obj[t])}}
    /\ stopPc' = [o \in Objs |->
           IF o \in T /\ ~StopThrows(obj[o])
           THEN IF obj[o].process = "null" THEN "done" ELSE "wait"
           ELSE stopPc[o]]
    /\ sessions' = [i \in Ids |->
           IF sessions[i] \in T /\ StopCompletesSync(obj[sessions[i]])
           THEN 0 ELSE sessions[i]]

\* stopTranscoding after its wait: state.sessions.delete(sessionId), by id; a
\* startTranscoding whose catch block awaited this stop re-throws.
StopResolves(t) ==
    /\ stopPc' = [stopPc EXCEPT ![t] = "done"]
    /\ sessions' = [sessions EXCEPT ![obj[t].id] = 0]
    /\ startPc' = [o \in Objs |->
           IF startPc[o] = "catch" /\ catchOn[o] = t THEN "rejected" ELSE startPc[o]]
    /\ catchOn' = [o \in Objs |-> IF catchOn[o] = t THEN 0 ELSE catchOn[o]]

----------------------------------------------------------------------------
\* A startTranscoding call is suspended at one of its awaits.
StartInFlight ==
    \/ \E i \in Ids : pending[i] > 0
    \/ \E o \in Objs : startPc[o] \in {"spawn", "connV", "connA", "sync", "catch"}

\* No cleanup() call is awaiting anything.  `clean` records, for a call that
\* waits, that none of its stops has thrown and no startTranscoding call has
\* been suspended since the cleanup was called.
NoCleanup == [awaits |-> {}, clean |-> TRUE]

\* No forwarder has been made by createBatchedRtpForwarder.  Of a forwarder:
\* the session object it forwards for, the packets array, batchTimeout ("null",
\* "armed", or "stale": the handle of a timer that has fired), the packets
\* handed to it so far (numbered in arrival order), the writes made to stdin
\* (each the packets of one concatenated buffer) and the packets cleared
\* without a write.
NoBatch ==
    [session |-> 0, packets |-> <<>>, batchTimeout |-> "null", arrived |-> 0,
     writes |-> <<>>, dropped |-> {}]

\* No startAdaptiveTranscoding call has been made.  Of a call: where it
\* stands, its arguments, the transcoders of the qualities whose
\* startTranscoding has returned, the paths these returned, the master
\* manifest written, the transcoder of the quality whose startTranscoding
\* failed after it had created its session (at most one), and the stage at
\* which that start failed ("": none has).
NoAdaptive ==
    [pc |-> "idle", id |-> "", producers |-> <<FALSE, FALSE>>,
     tiers |-> <<>>, playlistUrls |-> <<>>, master |-> <<>>,
     failed |-> <<>>, error |-> ""]

\* Date.now() when the manager is constructed (any time after the epoch).
ConstructedAt == 1000

\* No caller has begun a start-then-stop sequence.  Of such a caller: "idle",
\* "started" (its startTranscoding(id) is called), "stopped" (that call has
\* ended and its stopTranscoding(id) is called) or "threw" (that stop threw);
\* the id; healthCheck().usedPorts and the keys of state.sessions as it read
\* them before the start; and the number of session objects created till then.
NoTrip == [pc |-> "idle", id |-> "", usedPorts |-> {}, tracked |-> {}, objs |-> 0]

\* The Promise.all of the latest cleanup(): a stop it awaits has settled when
\* stopTranscoding has resolved; the call resolves when all have.
CleanupObserves ==
    cleanupCall' =
        LET a == {o \in cleanupCall.awaits : stopPc'[o] # "done"}
        IN  IF a = {} THEN NoCleanup
            ELSE [awaits |-> a,
                  clean |-> cleanupCall.clean /\ ~StartInFlight']

Init ==
    /\ baseRtpPort = DefaultBaseRtpPort
    /\ usedPorts = {}
    /\ sessions = [i \in Ids |-> 0]
    /\ obj = <<>>
    /\ startPc = <<>>
    /\ catchOn = <<>>
    /\ stopPc = <<>>
    /\ pending = [i \in Ids |-> 0]
    /\ cleanupCall = NoCleanup
    /\ ingest = <<>>
    /\ adaptive = NoAdaptive
    /\ batch = NoBatch
    /\ trip = NoTrip
    /\ now = ConstructedAt

\* The same manager constructed with a caller's baseRtpPort.
InitConfigured ==
    /\ baseRtpPort \in ConfiguredBases
    /\ usedPorts = {}
    /\ sessions = [i \in Ids |-> 0]
    /\ obj = <<>>
    /\ startPc = <<>>
    /\ catchOn = <<>>
    /\ stopPc = <<>>
    /\ pending = [i \in Ids |-> 0]
    /\ cleanupCall = NoCleanup
    /\ ingest = <<>>
    /\ adaptive = NoAdaptive
    /\ batch = NoBatch
    /\ trip = NoTrip
    /\ now = ConstructedAt

RECURSIVE PendingIn(_)
PendingIn(S) ==
    IF S = {} THEN 0
    ELSE LET i == CHOOSE x \in S : TRUE IN pending[i] + PendingIn(S \ {i})

----------------------------------------------------------------------------
\* startTranscoding

\* A call with an id that is not tracked: passes the has() check and awaits
\* ensureDirectoryExists(outputPath).
StartEnterCall(id) ==
    /\ sessions[id] = 0
    /\ Len(obj) + PendingIn(Ids) < MaxObj
    /\ pending' = [pending EXCEPT ![id] = @ + 1]
    /\ UNCHANGED <<baseRtpPort, usedPorts, sessions, obj, startPc, catchOn, stopPc>>
    /\ CleanupObserves
    /\ UNCHANGED ingest
    /\ UNCHANGED <<adaptive, batch, now>>

StartEnter(id) == StartEnterCall(id) /\ UNCHANGED trip

\* A call with a tracked id: the throw of 'already exists' is inside the try
\* block, so the catch block runs stopTranscoding(sessionId) before re-throwing.
StartDuplicate(id) ==
    /\ sessions[id] # 0
    /\ StopCalls({sessions[id]})
    /\ UNCHANGED <<baseRtpPort, startPc, catchOn, pending>>
    /\ CleanupObserves
    /\ UNCHANGED ingest
    /\ UNCHANGED <<adaptive, batch, trip, now>>

\* ensureDirectoryExists has resolved: ports are allocated, the session object
\* is created and registered, and ffmpeg is spawned; the call awaits 'spawn' or 'error'.
StartCreate(id, ps) ==
    /\ pending[id] > 0
    /\ LET ports == AllocatePorts(ps[1], ps[2], usedPorts, baseRtpPort)
       IN  /\ obj' = Append(obj, NewSession(id, ps[1], ps[2], ports))
           /\ usedPorts' = ports.used
    /\ sessions' = [sessions EXCEPT ![id] = Len(obj) + 1]
    /\ startPc' = Append(startPc, "spawn")
    /\ catchOn' = Append(catchOn, 0)
    /\ stopPc' = Append(stopPc, "idle")
    /\ pending' = [pending EXCEPT ![id] = @ - 1]
    /\ UNCHANGED baseRtpPort
    /\ CleanupObserves
    /\ ingest' = Append(ingest, NewIngest)
    /\ UNCHANGED <<adaptive, batch, trip, now>>

\* ensureDirectoryExists rejects, or the producers hold neither kind ('No valid
\* producers found'): the catch block runs stopTranscoding(sessionId).
StartPreFail(id) ==
    /\ pending[id] > 0
    /\ pending' = [pending EXCEPT ![id] = @ - 1]
    /\ IF sessions[id] = 0
       THEN UNCHANGED <<usedPorts, sessions, obj, stopPc>>
       ELSE StopCalls({sessions[id]})
    /\ UNCHANGED <<baseRtpPort, startPc, catchOn>>
    /\ CleanupObserves
    /\ UNCHANGED ingest
    /\ UNCHANGED <<adaptive, batch, trip, now>>

\* connectProducersToRtp: the next thing the call awaits.
NextConnect(s, after) ==
    IF after = "spawn" /\ s.producers.video /\ s.rtpPorts.video # 0 THEN "connV"
    ELSE IF after \in {"spawn", "connV"} /\ s.producers.audio /\ s.rtpPorts.audio # 0
         THEN "connA"
         ELSE "sync"

\* setupRtpReceiversWithForwarding: a socket per kind present, created and bound.
SetupSockets(s) ==
    [s EXCEPT !.rtpSockets =
        [k \in Kinds |->
            IF s.producers[k] /\ s.rtpPorts[k] # 0 /\ s.process # "null"
            THEN "open" ELSE s.rtpSockets[k]]]

\* The outcomes of the binds of setupRtpReceiversWithForwarding, per kind.
BindOutcomes == [Kinds -> BOOLEAN]

AllBindsOk == [k \in Kinds |-> TRUE]

\* socket.bind(port, '127.0.0.1') of each socket that was opened.  The address
\* is an IP literal, so the bind is made on the next tick, before any answer
\* of the child or of the media worker: 'listening', or 'error' (the port is
\* held by someone else), whose handler arms the 1 s timer of
\* attemptSocketRecovery.
BindOutcome(g, s, bindOk) ==
    [g EXCEPT !.bind = [k \in Kinds |->
                           IF s.rtpSockets[k] # "open" THEN g.bind[k]
                           ELSE IF bindOk[k] THEN "bound" ELSE "failed"],
              !.recovery = [k \in Kinds |->
                           IF s.rtpSockets[k] = "open" /\ ~bindOk[k] THEN "timer"
                           ELSE g.recovery[k]]]

\* 'spawn': session.process is set, the sockets are set up, the video (else
\* audio) producer's createPlainTransportForProducer is awaited.  bindOk is
\* the outcome of the binds.
SpawnConfirmedWith(o, bindOk) ==
    /\ startPc[o] = "spawn"
    /\ obj' = [obj EXCEPT ![o] = SetupSockets([@ EXCEPT !.process = "running"])]
    /\ startPc' = [startPc EXCEPT ![o] = NextConnect(obj[o], "spawn")]
    /\ UNCHANGED <<baseRtpPort, usedPorts, sessions, catchOn, stopPc, pending>>
    /\ CleanupObserves
    /\ ingest' = [ingest EXCEPT ![o] =
           EnterSync(BindOutcome(@, obj'[o], bindOk), obj[o], startPc'[o])]
    /\ UNCHANGED <<adaptive, batch, trip, now>>

\* 'spawn' with every bind succeeding.
SpawnConfirmed(o) == SpawnConfirmedWith(o, AllBindsOk)

\* The catch block of startTranscoding: await stopTranscoding(sessionId), then
\* re-throw.  The stop is looked up by id; when it throws, its error is the one
\* the start rejects with.
StartFails(o) ==
    LET t == sessions[obj[o].id]
    IN  IF t = 0
        THEN /\ startPc' = [startPc EXCEPT ![o] = "rejected"]
             /\ UNCHANGED <<usedPorts, sessions, obj, stopPc, catchOn>>
        ELSE /\ StopCalls({t})
             /\ startPc' = [startPc EXCEPT ![o] =
                    IF StopWaits(obj[t]) THEN "catch" ELSE "rejected"]
             /\ catchOn' = [catchOn EXCEPT ![o] =
                    IF StopWaits(obj[t]) THEN t ELSE 0]

\* 'error' of the child (it could not be spawned): startFFmpegProcess rejects.
SpawnError(o) ==
    /\ startPc[o] = "spawn"
    /\ StartFails(o)
    /\ UNCHANGED <<baseRtpPort, pending>>
    /\ CleanupObserves
    /\ UNCHANGED ingest
    /\ UNCHANGED <<adaptive, batch, trip, now>>

\* createPlainTransportForProducer resolves: transport and consumer are stored.
ConnectOk(o) ==
    /\ startPc[o] \in {"connV", "connA"}
    /\ LET k == IF startPc[o] = "connV" THEN "video" ELSE "audio"
       IN  obj' = [obj EXCEPT ![o].consumers[k] = "open"]
    /\ startPc' = [startPc EXCEPT ![o] = NextConnect(obj[o], @)]
    /\ UNCHANGED <<baseRtpPort, usedPorts, sessions, catchOn, stopPc, pending>>
    /\ CleanupObserves
    /\ ingest' = [ingest EXCEPT ![o] = EnterSync(@, obj[o], startPc'[o])]
    /\ UNCHANGED <<adaptive, batch, trip, now>>

\* createPlainTransportForProducer throws (no router, connect or consume fails).
ConnectFail(o) ==
    /\ startPc[o] \in {"connV", "connA"}
    /\ StartFails(o)
    /\ UNCHANGED <<baseRtpPort, pending>>
    /\ CleanupObserves
    /\ UNCHANGED ingest
    /\ UNCHANGED <<adaptive, batch, trip, now>>

\* waitForRtpFlow resolves (enough packets, or the timeout): the start returns
\* the playlist path.
FlowWaitResolved(o) ==
    /\ startPc[o] = "sync"
    /\ startPc' = [startPc EXCEPT ![o] = "returned"]
    /\ UNCHANGED <<baseRtpPort, usedPorts, sessions, obj, catchOn, stopPc, pending>>
    /\ CleanupObserves
    /\ UNCHANGED ingest
    /\ UNCHANGED <<adaptive, batch, trip, now>>

\* waitForRtpFlow: the interval of its check, and the count of packets that
\* the count since its start has to exceed.
CheckIntervalMs == 100
FlowPacketThreshold == 10

\* A check that gives the wait one interval more.
FlowTimedOutLate(elapsed, timeoutMs) == elapsed > timeoutMs + CheckIntervalMs

\* "else if (elapsed > timeoutMs)"
FlowTimedOut(elapsed, timeoutMs) == elapsed > timeoutMs

\* One run of the interval callback of waitForRtpFlow, CheckIntervalMs after
\* the one before: it resolves when more than FlowPacketThreshold packets have
\* been counted since the wait began, else when the timeout has passed; the
\* start then returns the playlist path.
FlowPoll(o) ==
    /\ startPc[o] = "sync"
    /\ LET elapsed == ingest[o].flow.elapsed + CheckIntervalMs
           packetsReceived == ingest[o].stats.packetsReceived - ingest[o].flow.initial
       IN  /\ ingest' = [ingest EXCEPT ![o].flow.elapsed = elapsed]
           /\ startPc' = [startPc EXCEPT ![o] =
                  IF \/ packetsReceived > FlowPacketThreshold
                     \/ FlowTimedOut(elapsed, ingest[o].flow.timeoutMs)
                  THEN "returned" ELSE @]
    /\ UNCHANGED <<baseRtpPort, usedPorts, sessions, obj, catchOn, stopPc, pending>>
    /\ CleanupObserves
    /\ UNCHANGED <<adaptive, batch, trip, now>>

----------------------------------------------------------------------------
\* stopTranscoding, cleanup and the events a stop waits for

\* A stopTranscoding that looks the id up among all session objects ever
\* created instead of in the registry.
StopUnknownByObject(id) ==
    /\ sessions[id] = 0
    /\ usedPorts' = usedPorts \
           UNION {ReleasedPorts(obj[o]) : o \in {x \in Objs : obj[x].id = id}}
    /\ UNCHANGED <<baseRtpPort, sessions, obj, startPc, catchOn, stopPc, pending>>
    /\ CleanupObserves
    /\ UNCHANGED ingest
    /\ UNCHANGED <<adaptive, batch, trip, now>>

\* stopTranscoding with an id that is not tracked: a warning.
StopUnknown(id) ==
    /\ sessions[id] = 0
    /\ UNCHANGED vars

\* stopTranscoding with a tracked id, up to its wait (or its end).
StopTrackedCall(id) ==
    /\ sessions[id] # 0
    /\ StopCalls({sessions[id]})
    /\ UNCHANGED <<baseRtpPort, startPc, catchOn, pending>>
    /\ CleanupObserves
    /\ UNCHANGED ingest
    /\ UNCHANGED <<adaptive, batch, now>>

StopTracked(id) == StopTrackedCall(id) /\ UNCHANGED trip

\* cleanup: stopTranscoding for every key of state.sessions, all begun in the
\* same run (the map callback does not await).
CleanupCalls ==
    /\ StopCalls({sessions[i] : i \in Ids} \ {0})
    /\ LET T == {sessions[i] : i \in Ids} \ {0}
           W == {o \in T : StopWaits(obj[o])}
       IN  cleanupCall' =
               IF W = {} THEN NoCleanup
               ELSE [awaits |-> W,
                     clean |-> ~StartInFlight /\ \A o \in T : ~StopThrows(obj[o])]

Cleanup ==
    /\ CleanupCalls
    /\ UNCHANGED <<baseRtpPort, startPc, catchOn, pending, ingest>>
    /\ UNCHANGED <<adaptive, batch, trip, now>>

\* The 5 s timer of stopTranscoding: SIGKILL when the child's `killed` flag is
\* not set, then resolve.
StopGraceTimeout(t) ==
    /\ stopPc[t] = "wait"
    /\ obj' = [obj EXCEPT ![t] =
           IF @.process # "null" /\ @.signal = "none"
           THEN ChildKill(@, "SIGKILL") ELSE @]
    /\ StopResolves(t)
    /\ UNCHANGED <<baseRtpPort, usedPorts, pending>>
    /\ CleanupObserves
    /\ UNCHANGED ingest
    /\ UNCHANGED <<adaptive, batch, trip, now>>

\* How a child may end: exit code 0, a non-zero exit code, or by a signal.
ExitKinds == {"code0", "crash", "SIGTERM", "SIGKILL"}

\* An 'exit' handler that also gives up the session's ports.
ExitHandlerDropsPorts(s, kind) ==
    [s EXCEPT !.process = "exited", !.isActive = FALSE,
              !.rtpPorts = [video |-> 0, audio |-> 0]]

\* The 'exit' handler of startFFmpegProcess: isActive is cleared first, and the
\* restart condition then reads it.
ExitHandler(s, kind) ==
    LET s1 == [s EXCEPT !.process = "exited", !.isActive = FALSE]
    IN  [s1 EXCEPT !.restartTimer =
            kind # "code0" /\ kind # "SIGTERM" /\ kind # "SIGKILL" /\ s1.isActive]

\* The child exits: the 'exit' handler runs, and the 'exit' listener of a
\* waiting stopTranscoding clears its timer and resolves.
ProcessExit(o, kind) ==
    /\ obj[o].process = "running"
    /\ obj' = [obj EXCEPT ![o] = ExitHandler(@, kind)]
    /\ IF stopPc[o] = "wait" /\ ingest[o].orphan # "awaited"
       THEN StopResolves(o)
       ELSE UNCHANGED <<stopPc, sessions, startPc, catchOn>>
    /\ UNCHANGED <<baseRtpPort, usedPorts, pending>>
    /\ CleanupObserves
    /\ UNCHANGED ingest
    /\ UNCHANGED <<adaptive, batch, trip, now>>

----------------------------------------------------------------------------
\* Ingest: datagrams, socket errors and socket recovery

\* Bounds of the model: the datagrams a session counts, in general and where
\* the flow check of a start is followed.
MaxPackets == 2
MaxFlowPackets == 12

\* Lengths (bytes) of the datagrams received.
PacketLengths == {2, 3}

\* A 'message' handler that overwrites the counters.
MessageHandlerOverwrites(stats, len) ==
    [packetsReceived |-> 1, bytesReceived |-> len]

\* The 'message' handler installed by setupRtpReceiversWithForwarding:
\* packetsReceived++, bytesReceived += rtpPacket.length.
MessageHandler(stats, len) ==
    [packetsReceived |-> stats.packetsReceived + 1,
     bytesReceived |-> stats.bytesReceived + len]

\* "session.process && session.process.stdin && !session.process.stdin.destroyed",
\* for a write that reaches the child: the child runs and stopTranscoding has
\* not ended its stdin.
StdinWritable(s) == s.process = "running" /\ s.signal = "none"

\* process.stdin.write(rtpPacket)
StdinWrite(written, len) ==
    [writes |-> written.writes + 1, bytes |-> written.bytes + len]

\* A datagram arrives on the socket that session.rtpSockets holds for kind k:
\* the handler counts it and forwards it.  The handler of a replacement socket
\* (attemptSocketRecovery) only forwards.
Datagram(o, k, len) ==
    /\ obj[o].rtpSockets[k] = "open"
    /\ ingest[o].bind[k] = "bound"
    /\ ingest' = [ingest EXCEPT
           ![o].stats = IF ingest[o].replaced[k] THEN @ ELSE MessageHandler(@, len),
           ![o].lastPacketTime = IF ingest[o].replaced[k] THEN @ ELSE now,
           ![o].written = IF StdinWritable(obj[o]) THEN StdinWrite(@, len) ELSE @]
    /\ UNCHANGED <<baseRtpPort, usedPorts, sessions, obj, startPc, catchOn,
                   stopPc, pending>>
    /\ CleanupObserves
    /\ UNCHANGED <<adaptive, batch, trip, now>>

\* The lines ffmpeg writes to stderr, by what the 'data' handler looks for.
StderrLines == {"error", "frame=", "Opening", "other"}

\* The 'data' handler of stderr logs a progress line when none was logged
\* yet or more than this many ms have passed.
ProgressLogIntervalMs == 5000

\* The 'data' handler of the child's stderr: what it leaves in
\* session.stats.lastPacketTime for a chunk `line` at time t.
StderrHandler(last, line, t) ==
    IF line = "frame=" /\ (last = 0 \/ t - last > ProgressLogIntervalMs)
    THEN t ELSE last

\* The running child of the session writes a chunk to stderr.
Stderr(o, line) ==
    /\ obj[o].process = "running"
    /\ ingest' = [ingest EXCEPT
           ![o].lastPacketTime = StderrHandler(@, line, now)]
    /\ UNCHANGED <<baseRtpPort, usedPorts, sessions, obj, startPc, catchOn,
                   stopPc, pending>>
    /\ CleanupObserves
    /\ UNCHANGED <<adaptive, batch, trip, now>>

\* Bound of the model: the time that passes, in steps of TickMs.
MaxTicks == 4

\* The step by which the model lets Date.now() advance between two callbacks.
TickMs == 2500

\* Time passes.
Tick ==
    /\ now < ConstructedAt + MaxTicks * TickMs
    /\ now' = now + TickMs
    /\ UNCHANGED <<baseRtpPort, usedPorts, sessions, obj, startPc, catchOn, stopPc,
                   pending, cleanupCall, ingest, adaptive, batch, trip>>

\* An exception no caller catches (thrown inside an event callback): the
\* 'uncaughtException' listener of hls-transcoder.ts logs it, the one of
\* server.ts runs shutdown(), which awaits hlsTranscoder.cleanup().
UncaughtException == CleanupCalls

\* 'error' on the socket in session.rtpSockets.  The handler of a socket
\* opened by setupRtpReceiversWithForwarding arms the 1 s timer of
\* attemptSocketRecovery.  A replacement socket has no 'error' listener: the
\* event is thrown as an uncaught exception ("unhandled").
SocketError(o, k) ==
    /\ obj[o].rtpSockets[k] = "open"
    /\ ingest[o].recovery[k] = "none"
    /\ IF ingest[o].replaced[k]
       THEN /\ UncaughtException
            /\ ingest' = [ingest EXCEPT ![o].recovery[k] = "unhandled"]
       ELSE /\ ingest' = [ingest EXCEPT ![o].recovery[k] = "timer"]
            /\ UNCHANGED <<usedPorts, sessions, obj, stopPc>>
            /\ CleanupObserves
    /\ UNCHANGED <<baseRtpPort, startPc, catchOn, pending>>
    /\ UNCHANGED <<adaptive, batch, trip, now>>

\* attemptSocketRecovery when its timer fires: nothing for an inactive
\* session; else a new socket is created and bound to the session's port.
AttemptSocketRecovery(o, k) ==
    /\ ingest[o].recovery[k] = "timer"
    /\ ingest' = [ingest EXCEPT ![o].recovery[k] =
           IF obj[o].isActive THEN "binding" ELSE "none"]
    /\ UNCHANGED <<baseRtpPort, usedPorts, sessions, obj, startPc, catchOn,
                   stopPc, pending>>
    /\ CleanupObserves
    /\ UNCHANGED <<adaptive, batch, trip, now>>

\* The bind callback of the new socket: the old socket is closed (close()
\* throws when a stop has closed it already, leaving the table as it is) and
\* the new socket takes its place in session.rtpSockets.
RecoveryListening(o, k) ==
    /\ ingest[o].recovery[k] = "binding"
    /\ IF obj[o].rtpSockets[k] = "closed"
       THEN /\ UncaughtException
            /\ ingest' = [ingest EXCEPT ![o].recovery[k] = "none"]
       ELSE /\ obj' = [obj EXCEPT ![o].rtpSockets[k] = "open"]
            /\ ingest' = [ingest EXCEPT ![o].recovery[k] = "none",
                                        ![o].replaced[k] = TRUE,
                                        ![o].bind[k] = "bound"]
            /\ UNCHANGED <<usedPorts, sessions, stopPc>>
            /\ CleanupObserves
    /\ UNCHANGED <<baseRtpPort, startPc, catchOn, pending>>
    /\ UNCHANGED <<adaptive, batch, trip, now>>

\* The bind of the new socket fails (the port is still held, e.g. by the old
\* socket, which is closed only in the bind callback): 'error' is emitted on
\* the new socket, which has no 'error' listener.
RecoveryBindFails(o, k) ==
    /\ ingest[o].recovery[k] = "binding"
    /\ UncaughtException
    /\ ingest' = [ingest EXCEPT ![o].recovery[k] = "none"]
    /\ UNCHANGED <<baseRtpPort, startPc, catchOn, pending>>
    /\ UNCHANGED <<adaptive, batch, trip, now>>

----------------------------------------------------------------------------
\* recoverSession

\* "Check RTP sockets": address() throws on a socket that was closed.
RecoverSocketThrows(s) ==
    \E k \in Kinds : s.producers[k] /\ s.rtpSockets[k] = "closed"

\* "Check RTP sockets": attemptSocketRecovery for a kind without a socket
\* (video first; the audio check is not reached when the video check throws).
RecoverSockets(s, g) ==
    [g EXCEPT !.recovery =
        [k \in Kinds |->
            IF /\ s.producers[k] /\ s.rtpSockets[k] = "none" /\ s.isActive
               /\ (k = "video" \/ ~(s.producers.video /\ s.rtpSockets.video = "closed"))
            THEN "binding" ELSE g.recovery[k]]]

\* "Re-establish mediasoup connections if needed": the next await.
NextRecoverConnect(s, after) ==
    IF after = "process" /\ s.producers.video /\ s.consumers.video = "none"
    THEN "connV"
    ELSE IF s.producers.audio /\ s.consumers.audio = "none" THEN "connA"
         ELSE "none"

\* recoverSession from "Check RTP sockets" on, for the session as s and g
\* describe it: returns false when a check throws, suspends at a
\* createPlainTransportForProducer, or sets isActive = true and returns true.
RecoverContinue(o, s, g) ==
    IF RecoverSocketThrows(s)
    THEN /\ obj' = [obj EXCEPT ![o] = s]
         /\ ingest' = [ingest EXCEPT ![o] =
                [RecoverSockets(s, g) EXCEPT !.recoverPc = "none"]]
    ELSE LET pc == NextRecoverConnect(s, "process")
         IN  /\ obj' = [obj EXCEPT ![o] =
                    IF pc = "none" THEN [s EXCEPT !.isActive = TRUE] ELSE s]
             /\ ingest' = [ingest EXCEPT ![o] =
                    [RecoverSockets(s, g) EXCEPT !.recoverPc = pc]]

\* recoverSession(id) of a tracked session: a new ffmpeg is spawned when the
\* process handle is null or its `killed` flag is set, and 'spawn' is awaited.
RecoverCall(id) ==
    /\ sessions[id] # 0
    /\ LET o == sessions[id]
       IN  /\ ingest[o].recoverPc = "none"
           /\ IF obj[o].process = "null" \/ obj[o].signal # "none"
              THEN /\ ingest' = [ingest EXCEPT ![o].recoverPc = "spawn"]
                   /\ UNCHANGED obj
              ELSE RecoverContinue(o, obj[o], ingest[o])
    /\ UNCHANGED <<baseRtpPort, usedPorts, sessions, startPc, catchOn, stopPc,
                   pending>>
    /\ CleanupObserves
    /\ UNCHANGED <<adaptive, batch, trip, now>>

\* 'spawn' of the new child: session.process = newProcess.  The child it
\* replaces, when still running, keeps its handlers.
RecoverSpawned(o) ==
    /\ ingest[o].recoverPc = "spawn"
    /\ RecoverContinue(o,
           [obj[o] EXCEPT !.process = "running", !.signal = "none"],
           [ingest[o] EXCEPT !.orphan =
               IF obj[o].process = "running"
               THEN (IF stopPc[o] = "wait" THEN "awaited" ELSE "running")
               ELSE @])
    /\ UNCHANGED <<baseRtpPort, usedPorts, sessions, startPc, catchOn, stopPc,
                   pending>>
    /\ CleanupObserves
    /\ UNCHANGED <<adaptive, batch, trip, now>>

\* 'error' of the new child, or createPlainTransportForProducer throws: the
\* catch block of recoverSession returns false.
RecoverFails(o) ==
    /\ ingest[o].recoverPc # "none"
    /\ ingest' = [ingest EXCEPT ![o].recoverPc = "none"]
    /\ UNCHANGED <<baseRtpPort, usedPorts, sessions, obj, startPc, catchOn,
                   stopPc, pending>>
    /\ CleanupObserves
    /\ UNCHANGED <<adaptive, batch, trip, now>>

\* createPlainTransportForProducer resolves inside recoverSession.
RecoverConnectOk(o) ==
    /\ ingest[o].recoverPc \in {"connV", "connA"}
    /\ LET k == IF ingest[o].recoverPc = "connV" THEN "video" ELSE "audio"
           s == [obj[o] EXCEPT !.consumers[k] = "open"]
           pc == NextRecoverConnect(s, ingest[o].recoverPc)
       IN  /\ obj' = [obj EXCEPT ![o] =
                  IF pc = "none" THEN [s EXCEPT !.isActive = TRUE] ELSE s]
           /\ ingest' = [ingest EXCEPT ![o].recoverPc = pc]
    /\ UNCHANGED <<baseRtpPort, usedPorts, sessions, startPc, catchOn, stopPc,
                   pending>>
    /\ CleanupObserves
    /\ UNCHANGED <<adaptive, batch, trip, now>>

\* The child that recoverSession replaced exits: its 'exit' handler clears
\* session.isActive, and a stopTranscoding that awaits it resolves.
OrphanExit(o, kind) ==
    /\ ingest[o].orphan # "none"
    /\ obj' = [obj EXCEPT ![o] = [ExitHandler(@, kind) EXCEPT !.process = obj[o].process]]
    /\ ingest' = [ingest EXCEPT ![o].orphan = "none"]
    /\ IF stopPc[o] = "wait" /\ ingest[o].orphan = "awaited"
       THEN StopResolves(o)
       ELSE UNCHANGED <<stopPc, sessions, startPc, catchOn>>
    /\ UNCHANGED <<baseRtpPort, usedPorts, pending>>
    /\ CleanupObserves
    /\ UNCHANGED <<adaptive, batch, trip, now>>

----------------------------------------------------------------------------
\* startAdaptiveTranscoding and createMasterPlaylist

\* A string is the sequence of its characters.
Digits == <<"0", "1", "2", "3", "4", "5", "6", "7", "8", "9">>

IsDigit(c) == \E d \in 1..10 : Digits[d] = c

DigitValue(c) == (CHOOSE d \in 1..10 : Digits[d] = c) - 1

\* The qualities of startAdaptiveTranscoding.
Qualities ==
    << [name |-> "720p", resolution |-> <<"1", "2", "8", "0", "x", "7", "2", "0">>,
        bitrate |-> <<"2", "5", "0", "0", "k">>],
       [name |-> "480p", resolution |-> <<"8", "5", "4", "x", "4", "8", "0">>,
        bitrate |-> <<"1", "2", "0", "0", "k">>],
       [name |-> "360p", resolution |-> <<"6", "4", "0", "x", "3", "6", "0">>,
        bitrate |-> <<"8", "0", "0", "k">>] >>

\* `${sessionId}_${quality.name}`
QualitySessionId(sessionId, name) == <<sessionId, "_", name>>

\* Paths are written relative to state.config.outputDir, as the sequence of
\* their characters, a session id and a file name standing for theirs.
\* path.join(outputPath, 'playlist.m3u8') with outputPath =
\* path.join(outputDir, sessionId): what startTranscoding returns.
PlaylistPath(sessionId) == sessionId \o <<"/", "playlist.m3u8">>

\* The directory of masterPlaylistPath = path.join(outputDir, sessionId,
\* 'master.m3u8').
MasterPlaylistDir(sessionId) == <<sessionId>>

\* A URI line of a playlist as a player resolves it: relative to the
\* directory the playlist is in.
ResolveUri(dir, uri) == dir \o <<"/">> \o uri

\* String.prototype.replace(c, ''): the first occurrence of c is removed.
RECURSIVE ReplaceFirst(_, _)
ReplaceFirst(str, c) ==
    IF str = <<>> THEN <<>>
    ELSE IF Head(str) = c THEN Tail(str)
         ELSE <<Head(str)>> \o ReplaceFirst(Tail(str), c)

\* parseInt(str): the value of the leading decimal digits (acc so far), -1
\* standing for NaN when there is none.
RECURSIVE ParseDigits(_, _, _)
ParseDigits(str, acc, any) ==
    IF str # <<>> /\ IsDigit(Head(str))
    THEN ParseDigits(Tail(str), acc * 10 + DigitValue(Head(str)), TRUE)
    ELSE IF any THEN acc ELSE -1

parseInt(str) == ParseDigits(str, 0, FALSE)

\* String.prototype.split(c): the pieces between the occurrences of c.
RECURSIVE Split(_, _, _)
Split(str, c, piece) ==
    IF str = <<>> THEN <<piece>>
    ELSE IF Head(str) = c THEN <<piece>> \o Split(Tail(str), c, <<>>)
         ELSE Split(Tail(str), c, Append(piece, Head(str)))

\* Number(str) of a piece of the resolution: -1 stands for NaN, 0 for ''.
RECURSIVE AllDigits(_)
AllDigits(str) == str = <<>> \/ (IsDigit(Head(str)) /\ AllDigits(Tail(str)))

Number(str) ==
    IF str = <<>> THEN 0
    ELSE IF AllDigits(str) THEN parseInt(str) ELSE -1

\* A bandwidth that is the bitrate's number as it stands.
BandwidthUnscaled(bitrate) == parseInt(ReplaceFirst(bitrate, "k"))

\* parseInt(quality.bitrate.replace('k', '')) * 1000
Bandwidth(bitrate) == parseInt(ReplaceFirst(bitrate, "k")) * 1000

\* createMasterPlaylist: the #EXT-X-STREAM-INF line of each quality and the
\* URI line after it.
MasterContent(qualities) ==
    [i \in 1..Len(qualities) |->
        LET wh == [p \in 1..Len(Split(qualities[i].resolution, "x", <<>>)) |->
                      Number(Split(qualities[i].resolution, "x", <<>>)[p])]
        IN  [BANDWIDTH |-> Bandwidth(qualities[i].bitrate),
             RESOLUTION |-> <<wh[1], wh[2]>>,
             NAME |-> qualities[i].name,
             uri |-> <<qualities[i].name, "/", "playlist.m3u8">>]]

\* The transcoder createHLSTranscoder(customConfig) makes for quality i, after
\* its startTranscoding(qualitySessionId, producers) has returned: its own
\* config, reserved ports and registry, holding the one session.
TierTranscoder(i, sessionId, ps) ==
    LET base == baseRtpPort + (i - 1) * 100
        ports == AllocatePorts(ps[1], ps[2], {}, base)
        qid == QualitySessionId(sessionId, Qualities[i].name)
        s0 == SetupSockets([NewSession(qid, ps[1], ps[2], ports)
                               EXCEPT !.process = "running"])
    IN  [baseRtpPort |-> base,
         resolution |-> Qualities[i].resolution,
         videoBitrate |-> Qualities[i].bitrate,
         usedPorts |-> ports.used,
         sessions |-> {qid},
         session |-> [s0 EXCEPT !.consumers =
                         [k \in Kinds |-> IF s0.producers[k] THEN "open" ELSE "none"]]]

\* startAdaptiveTranscoding(sessionId, producers): the first transcoder is
\* created and its init() awaited.
AdaptiveStart(id, ps) ==
    /\ adaptive.pc = "idle"
    /\ adaptive' = [NoAdaptive EXCEPT !.pc = "tier", !.id = id, !.producers = ps]
    /\ UNCHANGED <<baseRtpPort, usedPorts, sessions, obj, startPc, catchOn, stopPc,
                   pending, cleanupCall, ingest, batch, trip, now>>

\* The startTranscoding of the next quality returns its playlist path: the
\* loop goes on to the next quality, or createMasterPlaylist awaits writeFile.
AdaptiveTierStarted ==
    /\ adaptive.pc = "tier"
    /\ LET i == Len(adaptive.tiers) + 1
       IN  adaptive' = [adaptive EXCEPT
               !.tiers = Append(@, TierTranscoder(i, adaptive.id, adaptive.producers)),
               !.playlistUrls = Append(@,
                   PlaylistPath(QualitySessionId(adaptive.id, Qualities[i].name))),
               !.pc = IF i = Len(Qualities) THEN "master" ELSE "tier"]
    /\ UNCHANGED <<baseRtpPort, usedPorts, sessions, obj, startPc, catchOn, stopPc,
                   pending, cleanupCall, ingest, batch, trip, now>>

\* Where the init() or the startTranscoding of a quality's transcoder can
\* fail: init's or startTranscoding's ensureDirectoryExists, the spawn of
\* ffmpeg, and the createPlainTransportForProducer of either kind.
TierFailStages == {"init", "mkdir", "spawn", "connV", "connA"}

\* The stage is one the start of a quality with producers ps goes through.
TierStageReached(ps, stage) ==
    /\ stage = "connV" => ps[1]
    /\ stage = "connA" => ps[2]

\* The session of the transcoder of quality i when its startTranscoding
\* throws at `stage`, after the session was created: no process at "spawn";
\* later a process (which may have exited meanwhile) and the sockets, and at
\* "connA" the video consumer when there is a video producer.
TierSessionAtFailure(i, sessionId, ps, stage, exited) ==
    LET base == baseRtpPort + (i - 1) * 100
        ports == AllocatePorts(ps[1], ps[2], {}, base)
        s0 == NewSession(QualitySessionId(sessionId, Qualities[i].name),
                         ps[1], ps[2], ports)
        s1 == SetupSockets([s0 EXCEPT !.process = "running"])
        s2 == IF exited THEN ExitHandler(s1, "crash") ELSE s1
    IN  IF stage = "spawn" THEN s0
        ELSE IF stage = "connA" /\ ps[1]
             THEN [s2 EXCEPT !.consumers.video = "open"]
             ELSE s2

\* The transcoder of quality i after the catch block of its startTranscoding
\* has run the synchronous part of stopTranscoding(qualitySessionId).
TierAfterCatch(i, sessionId, ps, stage, exited) ==
    LET s == TierSessionAtFailure(i, sessionId, ps, stage, exited)
    IN  [baseRtpPort |-> baseRtpPort + (i - 1) * 100,
         resolution |-> Qualities[i].resolution,
         videoBitrate |-> Qualities[i].bitrate,
         usedPorts |-> AllocatePorts(ps[1], ps[2], {}, baseRtpPort + (i - 1) * 100).used
                           \ ReleasedPorts(s),
         sessions |-> IF StopCompletesSync(s) THEN {} ELSE {s.id},
         session |-> SessAfterStop(s)]

\* init() or startTranscoding of the next quality throws at `stage`.  Before
\* a session exists the call rejects at once (the stopTranscoding of the catch
\* block finds no session); else the catch block stops the session, and the
\* call rejects when that stop has ended, at once or after its wait.  The
\* loop has no catch: the transcoders made so far keep their sessions.
AdaptiveTierFails(stage, exited) ==
    /\ adaptive.pc = "tier"
    /\ TierStageReached(adaptive.producers, stage)
    /\ exited => stage \in {"connV", "connA"}
    /\ LET i == Len(adaptive.tiers) + 1
           f == TierAfterCatch(i, adaptive.id, adaptive.producers, stage, exited)
       IN  adaptive' =
               IF stage \in {"init", "mkdir"}
               THEN [adaptive EXCEPT !.pc = "rejected", !.error = stage]
               ELSE [adaptive EXCEPT !.pc = IF f.sessions = {} THEN "rejected"
                                           ELSE "tierCatch",
                                     !.failed = <<f>>,
                                     !.error = stage]
    /\ UNCHANGED <<baseRtpPort, usedPorts, sessions, obj, startPc, catchOn, stopPc,
                   pending, cleanupCall, ingest, batch, trip, now>>

\* The child of the failed quality exits while the stop of the catch block
\* awaits it: the stop deletes the session and resolves, the startTranscoding
\* re-throws its error and the adaptive call rejects with it.
AdaptiveTierStopExit(kind) ==
    /\ adaptive.pc = "tierCatch"
    /\ adaptive.failed[1].session.process = "running"
    /\ adaptive' = [adaptive EXCEPT !.pc = "rejected",
                                    !.failed[1].session = ExitHandler(@, kind),
                                    !.failed[1].sessions = {}]
    /\ UNCHANGED <<baseRtpPort, usedPorts, sessions, obj, startPc, catchOn, stopPc,
                   pending, cleanupCall, ingest, batch, trip, now>>

\* The 5 s timer of that stop fires first: SIGKILL when the `killed` flag is
\* not set, then the session is deleted and the call rejects.
AdaptiveTierStopTimeout ==
    /\ adaptive.pc = "tierCatch"
    /\ adaptive' = [adaptive EXCEPT
           !.pc = "rejected",
           !.failed[1].session =
               IF @.process # "null" /\ @.signal = "none"
               THEN ChildKill(@, "SIGKILL") ELSE @,
           !.failed[1].sessions = {}]
    /\ UNCHANGED <<baseRtpPort, usedPorts, sessions, obj, startPc, catchOn, stopPc,
                   pending, cleanupCall, ingest, batch, trip, now>>

\* writeFile(masterPlaylistPath) resolves (the directory outputDir/sessionId
\* exists): the call returns playlistUrls.
AdaptiveMasterWritten ==
    /\ adaptive.pc = "master"
    /\ adaptive' = [adaptive EXCEPT !.pc = "returned",
                                    !.master = MasterContent(Qualities)]
    /\ UNCHANGED <<baseRtpPort, usedPorts, sessions, obj, startPc, catchOn, stopPc,
                   pending, cleanupCall, ingest, batch, trip, now>>

\* writeFile rejects (ENOENT: nothing has created outputDir/sessionId).
AdaptiveMasterFails ==
    /\ adaptive.pc = "master"
    /\ adaptive' = [adaptive EXCEPT !.pc = "rejected"]
    /\ UNCHANGED <<baseRtpPort, usedPorts, sessions, obj, startPc, catchOn, stopPc,
                   pending, cleanupCall, ingest, batch, trip, now>>

\* The child of quality i's session exits: its 'exit' handler runs.
TierProcessExit(i, kind) ==
    /\ i \in 1..Len(adaptive.tiers)
    /\ adaptive.tiers[i].session.process = "running"
    /\ adaptive' = [adaptive EXCEPT !.tiers[i].session = ExitHandler(@, kind)]
    /\ UNCHANGED <<baseRtpPort, usedPorts, sessions, obj, startPc, catchOn, stopPc,
                   pending, cleanupCall, ingest, batch, trip, now>>

----------------------------------------------------------------------------
\* The port pool by itself: getAvailablePort and the release of a pair

\* Bound of the model: the pairs reserved at a time.
MaxPairs == 6

\* The highest UDP port.
MaxUdpPort == 65535

\* baseRtpPort values of the pool: the configured ones and one that leaves
\* two pairs below the end of the UDP range.
PoolBases == ConfiguredBases \cup {MaxUdpPort - 3}

InitPool ==
    /\ baseRtpPort \in PoolBases
    /\ usedPorts = {}
    /\ sessions = [i \in Ids |-> 0]
    /\ obj = <<>>
    /\ startPc = <<>>
    /\ catchOn = <<>>
    /\ stopPc = <<>>
    /\ pending = [i \in Ids |-> 0]
    /\ cleanupCall = NoCleanup
    /\ ingest = <<>>
    /\ adaptive = NoAdaptive
    /\ batch = NoBatch
    /\ trip = NoTrip
    /\ now = ConstructedAt

\* A call of getAvailablePort(): the loop and the two adds, with no await.
Reserve ==
    /\ Cardinality(usedPorts) < 2 * MaxPairs
    /\ usedPorts' = getAvailablePort(usedPorts, baseRtpPort).used
    /\ UNCHANGED <<baseRtpPort, sessions, obj, startPc, catchOn, stopPc, pending,
                   cleanupCall, ingest, adaptive, batch, trip, now>>

\* "Release RTP ports" of stopTranscoding for a pair that a session records.
Release(port) ==
    /\ port \in usedPorts
    /\ usedPorts' = usedPorts \ {port, port + 1}
    /\ UNCHANGED <<baseRtpPort, sessions, obj, startPc, catchOn, stopPc, pending,
                   cleanupCall, ingest, adaptive, batch, trip, now>>

----------------------------------------------------------------------------
\* createBatchedRtpForwarder

\* Bound of the model: the packets handed to the forwarder.
MaxBatchPackets == 12

BATCH_SIZE == 10

\* A batch that is taken as full one packet late.
BatchFullLate(n) == n > BATCH_SIZE

\* "if (packets.length >= BATCH_SIZE)"
BatchFull(n) == n >= BATCH_SIZE

\* flushBatch(): nothing for an empty array; else one write of the
\* concatenation when stdin passes the check, then the array is cleared and
\* batchTimeout set to null.  fired tells that the timer called it.
flushBatch(b, writable, fired) ==
    IF b.packets = <<>>
    THEN [b EXCEPT !.batchTimeout = IF fired THEN "stale" ELSE @]
    ELSE [b EXCEPT !.writes = IF writable THEN Append(@, b.packets) ELSE @,
                   !.dropped = IF writable THEN @
                               ELSE @ \cup {b.packets[i] : i \in 1..Len(b.packets)},
                   !.packets = <<>>,
                   !.batchTimeout = "null"]

\* createBatchedRtpForwarder(session, type) for a session with a process.
CreateBatchedRtpForwarder(o) ==
    /\ batch.session = 0
    /\ obj[o].process # "null"
    /\ batch' = [NoBatch EXCEPT !.session = o]
    /\ UNCHANGED <<baseRtpPort, usedPorts, sessions, obj, startPc, catchOn, stopPc,
                   pending, cleanupCall, ingest, adaptive, trip, now>>

\* The forwarder is called with the next packet: push, then a flush when the
\* batch is full (its timer cleared), else a timer of BATCH_TIMEOUT (5 ms) is
\* armed when batchTimeout is null.
BatchedForward ==
    /\ batch.session # 0
    /\ batch.arrived < MaxBatchPackets
    /\ LET b == [batch EXCEPT !.arrived = @ + 1,
                              !.packets = Append(@, batch.arrived + 1)]
       IN  batch' =
               IF BatchFull(Len(b.packets))
               THEN flushBatch([b EXCEPT !.batchTimeout = "null"],
                               StdinWritable(obj[batch.session]), FALSE)
               ELSE IF b.batchTimeout = "null"
                    THEN [b EXCEPT !.batchTimeout = "armed"]
                    ELSE b
    /\ UNCHANGED <<baseRtpPort, usedPorts, sessions, obj, startPc, catchOn, stopPc,
                   pending, cleanupCall, ingest, adaptive, trip, now>>

\* The timer of BATCH_TIMEOUT fires: flushBatch.
BatchTimerFires ==
    /\ batch.batchTimeout = "armed"
    /\ batch' = flushBatch(batch, StdinWritable(obj[batch.session]), TRUE)
    /\ UNCHANGED <<baseRtpPort, usedPorts, sessions, obj, startPc, catchOn, stopPc,
                   pending, cleanupCall, ingest, adaptive, trip, now>>

----------------------------------------------------------------------------
\* A caller that starts a session and stops it again

\* A startTranscoding, stopTranscoding or cleanup call is suspended.
CallInProgress ==
    \/ StartInFlight
    \/ \E o \in Objs : stopPc[o] = "wait"
    \/ cleanupCall.awaits # {}

\* The keys of state.sessions.
TrackedIds == {i \in Ids : sessions[i] # 0}

\* The caller reads healthCheck().usedPorts and the tracked ids and calls
\* startTranscoding(id), in one run, while no call is suspended.
TripStart(id) ==
    /\ trip.pc = "idle"
    /\ ~CallInProgress
    /\ StartEnterCall(id)
    /\ trip' = [pc |-> "started", id |-> id, usedPorts |-> usedPorts,
                tracked |-> TrackedIds, objs |-> Len(obj)]

\* The caller's startTranscoding has returned or rejected.
TripStartEnded ==
    /\ trip.pc = "started"
    /\ pending[trip.id] = 0
    /\ Len(obj) > trip.objs => startPc[trip.objs + 1] \in {"returned", "rejected"}

\* The caller then calls stopTranscoding(id): a warning when the id is not
\* tracked (the start failed and its catch block has removed the session),
\* else the stop up to its wait.
TripStop ==
    /\ TripStartEnded
    /\ IF sessions[trip.id] = 0
       THEN /\ trip' = [trip EXCEPT !.pc = "stopped"]
            /\ UNCHANGED <<baseRtpPort, usedPorts, sessions, obj, startPc, catchOn,
                           stopPc, pending, cleanupCall, ingest, adaptive, batch,
                           now>>
       ELSE /\ StopTrackedCall(trip.id)
            /\ trip' = [trip EXCEPT !.pc =
                   IF StopThrows(obj[sessions[trip.id]]) THEN "threw" ELSE "stopped"]

----------------------------------------------------------------------------
Next ==
    \/ \E id \in Ids : StartEnter(id)
    \/ \E id \in Ids : StartDuplicate(id)
    \/ \E id \in Ids, ps \in ProducerSets : StartCreate(id, ps)
    \/ \E id \in Ids : StartPreFail(id)
    \/ \E o \in Objs : SpawnConfirmed(o)
    \/ \E o \in Objs : SpawnError(o)
    \/ \E o \in Objs : ConnectOk(o)
    \/ \E o \in Objs : ConnectFail(o)
    \/ \E o \in Objs : FlowWaitResolved(o)
    \/ \E id \in Ids : StopUnknown(id)
    \/ \E id \in Ids : StopTracked(id)
    \/ Cleanup
    \/ \E t \in Objs : StopGraceTimeout(t)
    \/ \E o \in Objs, kind \in ExitKinds : ProcessExit(o, kind)

Spec == Init /\ [][Next]_vars

\* The manager with any of the configured base ports.
SpecConfigured == InitConfigured /\ [][Next]_vars

\* One session, started by one startTranscoding call and then driven by
\* datagrams, socket errors, its child's exit, recoverSession (called once the
\* start has set session.process) and stopTranscoding.
NextIngest ==
    \/ Len(obj) + PendingIn(Ids) = 0 /\ StartEnter("s1")
    \/ \E ps \in ProducerSets : StartCreate("s1", ps)
    \/ \E o \in Objs : SpawnConfirmed(o)
    \/ \E o \in Objs : ConnectOk(o)
    \/ \E o \in Objs : FlowWaitResolved(o)
    \/ \E o \in Objs, k \in Kinds, len \in PacketLengths :
           /\ ingest[o].stats.packetsReceived < MaxPackets
           /\ ingest[o].written.writes < MaxPackets
           /\ Datagram(o, k, len)
    \/ \E o \in Objs, k \in Kinds : SocketError(o, k)
    \/ \E o \in Objs, k \in Kinds : AttemptSocketRecovery(o, k)
    \/ \E o \in Objs, k \in Kinds : RecoveryListening(o, k)
    \/ \E o \in Objs, k \in Kinds : RecoveryBindFails(o, k)
    \/ \E o \in Objs, kind \in ExitKinds : ProcessExit(o, kind)
    \/ \E o \in Objs, kind \in ExitKinds : OrphanExit(o, kind)
    \/ \E id \in Ids : sessions[id] # 0
                         /\ startPc[sessions[id]] # "spawn"
                         /\ RecoverCall(id)
    \/ \E o \in Objs : RecoverSpawned(o)
    \/ \E o \in Objs : RecoverFails(o)
    \/ \E o \in Objs : RecoverConnectOk(o)
    \/ \E id \in Ids : StopTracked(id)
    \/ \E t \in Objs : StopGraceTimeout(t)

SpecIngest == Init /\ [][NextIngest]_vars

\* Several sessions side by side, started one after the other, each by one
\* startTranscoding call, with the first datagram of a started session and
\* its failures: socket errors and their recovery, and the exit of the child.
NextIsolation ==
    \/ \E id \in Ids : ~StartInFlight /\ StartEnter(id)
    \/ \E id \in Ids, ps \in ProducerSets : StartCreate(id, ps)
    \/ \E o \in Objs : SpawnConfirmed(o)
    \/ \E o \in Objs : ConnectOk(o)
    \/ \E o \in Objs : FlowWaitResolved(o)
    \/ \E o \in Objs, k \in Kinds, len \in PacketLengths :
           /\ startPc[o] = "returned"
           /\ ingest[o].stats.packetsReceived = 0
           /\ ingest[o].written.writes = 0
           /\ Datagram(o, k, len)
    \/ \E o \in Objs, k \in Kinds : startPc[o] = "returned" /\ SocketError(o, k)
    \/ \E o \in Objs, k \in Kinds : AttemptSocketRecovery(o, k)
    \/ \E o \in Objs, k \in Kinds : RecoveryListening(o, k)
    \/ \E o \in Objs, k \in Kinds : RecoveryBindFails(o, k)
    \/ \E o \in Objs, kind \in ExitKinds : ProcessExit(o, kind)

SpecIsolation == Init /\ [][NextIsolation]_vars

\* One session from its start to the end of the start's flow check, with the
\* datagrams that arrive meanwhile, the child's exit and a stop by the caller.
NextFlow ==
    \/ Len(obj) + PendingIn(Ids) = 0 /\ StartEnter("s1")
    \/ \E ps \in ProducerSets : StartCreate("s1", ps)
    \/ \E o \in Objs : SpawnConfirmed(o)
    \/ \E o \in Objs : ConnectOk(o)
    \/ \E o \in Objs, k \in Kinds :
           /\ startPc[o] \in {"connV", "connA", "sync"}
           /\ ingest[o].stats.packetsReceived < MaxFlowPackets
           /\ Datagram(o, k, 2)
    \/ \E o \in Objs : FlowPoll(o)
    \/ \E o \in Objs, kind \in ExitKinds : startPc[o] = "sync" /\ ProcessExit(o, kind)
    \/ \E id \in Ids : sessions[id] # 0 /\ startPc[sessions[id]] = "sync"
                         /\ StopTracked(id)

SpecFlow == Init /\ [][NextFlow]_vars

\* The interval timer of waitForRtpFlow keeps firing until it is cleared.
SpecFlowFair == SpecFlow /\ WF_vars(\E o \in Objs : FlowPoll(o))

\* One startAdaptiveTranscoding call on a transcoder constructed with any of
\* the configured bases, and the exits of the children it started.
NextAdaptive ==
    \/ \E id \in Ids, ps \in ProducerSets : AdaptiveStart(id, ps)
    \/ AdaptiveTierStarted
    \/ \E stage \in TierFailStages, exited \in BOOLEAN : AdaptiveTierFails(stage, exited)
    \/ \E kind \in ExitKinds : AdaptiveTierStopExit(kind)
    \/ AdaptiveTierStopTimeout
    \/ AdaptiveMasterWritten
    \/ AdaptiveMasterFails
    \/ \E i \in 1..Len(Qualities), kind \in ExitKinds : TierProcessExit(i, kind)

SpecAdaptive == InitConfigured /\ [][NextAdaptive]_vars

\* The reservations and releases of pairs, in any order.
NextPool ==
    \/ Reserve
    \/ \E k \in 0..MaxPairs : Release(baseRtpPort + 2 * k)

SpecPool == InitPool /\ [][NextPool]_vars

\* One session whose binds may fail, from its start to the recovery of its
\* sockets.
NextBind ==
    \/ Len(obj) + PendingIn(Ids) = 0 /\ StartEnter("s1")
    \/ \E ps \in ProducerSets : StartCreate("s1", ps)
    \/ \E o \in Objs, bindOk \in BindOutcomes : SpawnConfirmedWith(o, bindOk)
    \/ \E o \in Objs : ConnectOk(o)
    \/ \E o \in Objs : ConnectFail(o)
    \/ \E o \in Objs : FlowWaitResolved(o)
    \/ \E o \in Objs, k \in Kinds, len \in PacketLengths :
           /\ ingest[o].stats.packetsReceived < MaxPackets
           /\ ingest[o].written.writes < MaxPackets
           /\ Datagram(o, k, len)
    \/ \E o \in Objs, k \in Kinds : AttemptSocketRecovery(o, k)
    \/ \E o \in Objs, k \in Kinds : RecoveryListening(o, k)
    \/ \E o \in Objs, k \in Kinds : RecoveryBindFails(o, k)
    \/ \E o \in Objs, kind \in ExitKinds : ProcessExit(o, kind)

SpecBind == Init /\ [][NextBind]_vars

\* One session with a batched forwarder: the packets handed to it, its timer,
\* and the end of the child, after which stdin is not writable.
NextBatch ==
    \/ Len(obj) + PendingIn(Ids) = 0 /\ StartEnter("s1")
    \/ StartCreate("s1", <<TRUE, TRUE>>)
    \/ \E o \in Objs : SpawnConfirmed(o)
    \/ \E o \in Objs : CreateBatchedRtpForwarder(o)
    \/ BatchedForward
    \/ BatchTimerFires
    \/ \E o \in Objs : ProcessExit(o, "crash")

SpecBatch == Init /\ [][NextBatch]_vars

\* One startTranscoding call and one startAdaptiveTranscoding call on the
\* same manager, in any order, with stopTranscoding and cleanup() calls on
\* that manager and the exit of its session's child.
NextAdaptiveMixed ==
    \/ Len(obj) + PendingIn(Ids) = 0 /\ StartEnter("s1")
    \/ \E ps \in ProducerSets : StartCreate("s1", ps)
    \/ \E o \in Objs : SpawnConfirmed(o)
    \/ \E o \in Objs : ConnectOk(o)
    \/ \E o \in Objs : FlowWaitResolved(o)
    \/ \E id \in Ids : StopTracked(id)
    \/ Cleanup
    \/ \E t \in Objs : StopGraceTimeout(t)
    \/ \E o \in Objs, kind \in ExitKinds : ProcessExit(o, kind)
    \/ \E ps \in ProducerSets : AdaptiveStart("s2", ps)
    \/ AdaptiveTierStarted
    \/ \E stage \in TierFailStages, exited \in BOOLEAN : AdaptiveTierFails(stage, exited)
    \/ \E kind \in ExitKinds : AdaptiveTierStopExit(kind)
    \/ AdaptiveTierStopTimeout
    \/ AdaptiveMasterWritten
    \/ AdaptiveMasterFails

SpecAdaptiveMixed == Init /\ [][NextAdaptiveMixed]_vars

\* One session with every call on it, in any order; then, when no call is
\* suspended, a caller that starts a session and, when the start has ended,
\* stops it, with no other call made meanwhile; the children may exit at any
\* time.
NextRoundTrip ==
    \/ \E id \in Ids : /\ trip.pc = "idle" /\ Len(obj) + PendingIn(Ids) = 0
                        /\ StartEnter(id)
    \/ \E id \in Ids : trip.pc = "idle" /\ StartDuplicate(id)
    \/ \E id \in Ids, ps \in ProducerSets : StartCreate(id, ps)
    \/ \E id \in Ids : StartPreFail(id)
    \/ \E o \in Objs : SpawnConfirmed(o)
    \/ \E o \in Objs : SpawnError(o)
    \/ \E o \in Objs : ConnectOk(o)
    \/ \E o \in Objs : ConnectFail(o)
    \/ \E o \in Objs : FlowWaitResolved(o)
    \/ \E id \in Ids : trip.pc = "idle" /\ StopTracked(id)
    \/ trip.pc = "idle" /\ Cleanup
    \/ \E t \in Objs : StopGraceTimeout(t)
    \/ \E o \in Objs, kind \in ExitKinds : ProcessExit(o, kind)
    \/ \E id \in Ids : TripStart(id)
    \/ TripStop

SpecRoundTrip == Init /\ [][NextRoundTrip]_vars

\* One session over time: its start, the datagrams it receives, the chunks
\* its child writes to stderr, the child's exit and a stop.
NextQuality ==
    \/ Len(obj) + PendingIn(Ids) = 0 /\ StartEnter("s1")
    \/ \E ps \in ProducerSets : StartCreate("s1", ps)
    \/ \E o \in Objs : SpawnConfirmed(o)
    \/ \E o \in Objs : ConnectOk(o)
    \/ \E o \in Objs : FlowWaitResolved(o)
    \/ \E o \in Objs, k \in Kinds, len \in PacketLengths :
           /\ ingest[o].stats.packetsReceived < MaxPackets
           /\ Datagram(o, k, len)
    \/ \E o \in Objs, line \in StderrLines : Stderr(o, line)
    \/ Tick
    \/ \E o \in Objs, kind \in ExitKinds : ProcessExit(o, kind)
    \/ \E id \in Ids : StopTracked(id)

SpecQuality == Init /\ [][NextQuality]_vars

----------------------------------------------------------------------------
\* What the callers can observe

\* getSessionInfo(sessionId): null (found = FALSE) or the session's report.
getSessionInfo(id) ==
    IF sessions[id] = 0
    THEN [found |-> FALSE, isActive |-> FALSE, rtpPorts |-> [video |-> 0, audio |-> 0]]
    ELSE [found |-> TRUE,
          isActive |-> obj[sessions[id]].isActive,
          rtpPorts |-> obj[sessions[id]].rtpPorts]

\* state.sessions.get(sessionId) of the manager finds a session, for any
\* string sessionId (the ids of Ids, or the id of a quality's session).
ManagerHas(sessionId) == sessionId \in DOMAIN sessions /\ sessions[sessionId] # 0

\* The ports a session records: each non-zero rtpPorts entry and its successor.
PortsOf(s) ==
    UNION {{s.rtpPorts[k], s.rtpPorts[k] + 1} : k \in {x \in Kinds : s.rtpPorts[x] # 0}}

\* getActiveSessions(): the ids of the registered sessions with isActive set.
getActiveSessions ==
    {id \in Ids : sessions[id] # 0 /\ obj[sessions[id]].isActive}

\* Array.prototype.reduce((sum, session) => sum + f(session), 0) over the
\* sessions registered under the ids of S.
RECURSIVE Reduce(_, _)
Reduce(f, S) ==
    IF S = {} THEN 0
    ELSE LET i == CHOOSE x \in S : TRUE IN f[i] + Reduce(f, S \ {i})

\* healthCheck(): activeSessions is state.sessions.size; the totals are sums
\* over the values of state.sessions.
healthCheck ==
    [activeSessions |-> Cardinality({i \in Ids : sessions[i] # 0}),
     usedPorts |-> usedPorts,
     totalPacketsReceived |->
         Reduce([i \in Ids |-> IF sessions[i] = 0 THEN 0
                               ELSE ingest[sessions[i]].stats.packetsReceived],
                {i \in Ids : sessions[i] # 0}),
     totalBytesReceived |->
         Reduce([i \in Ids |-> IF sessions[i] = 0 THEN 0
                               ELSE ingest[sessions[i]].stats.bytesReceived],
                {i \in Ids : sessions[i] # 0})]

SocketOpen(s) == \E k \in Kinds : s.rtpSockets[k] = "open"

\* The step creates a session object (startTranscoding reserves its ports).
CreatesSession == Len(obj') = Len(obj) + 1

\* The stopTranscoding call that waited for object o's process ends in this step,
\* or a stop of o ends without waiting.
StopEnds(o) == stopPc[o] # "done" /\ stopPc'[o] = "done"

----------------------------------------------------------------------------
\* C1 (as stated): in every reachable state no port number (data port or its
\* +1 control port) is recorded by two different sessions tracked in the registry.
C1_NoPortSharedByTracked ==
    \A o1 \in Objs, o2 \in Objs :
        (o1 # o2 /\ Tracked(o1) /\ Tracked(o2))
            => PortsOf(obj[o1]) \cap PortsOf(obj[o2]) = {}

\* C1 (amended): two tracked sessions record a common port only while one of
\* them is being stopped (stopTranscoding has released its ports, marked it
\* inactive and awaits its process); two tracked sessions that no stop has
\* reached never do, and two active tracked sessions never do.
C1_NoPortSharedUnlessStopping ==
    \A o1 \in Objs, o2 \in Objs :
        (o1 # o2 /\ Tracked(o1) /\ Tracked(o2)
               /\ PortsOf(obj[o1]) \cap PortsOf(obj[o2]) # {})
            => /\ \E o \in {o1, o2} : stopPc[o] = "wait" /\ ~obj[o].isActive
               /\ ~(obj[o1].isActive /\ obj[o2].isActive)

\* Two tracked, active sessions, each holding reserved ports, one of them
\* started while the other was already tracked.
C1_Witness ==
    \E o1 \in Objs, o2 \in Objs :
        /\ o1 # o2 /\ Tracked(o1) /\ Tracked(o2)
        /\ obj[o1].isActive /\ obj[o2].isActive
        /\ PortsOf(obj[o1]) # {} /\ PortsOf(obj[o2]) # {}
        /\ PortsOf(obj[o1]) \cup PortsOf(obj[o2]) \subseteq usedPorts

\* C2: a startTranscoding with an id that is already tracked changes nothing:
\* the registry, the reserved set and every session object are as before.
C2_DuplicateStartNoEffect ==
    [][\A id \in Ids :
          StartDuplicate(id)
              => (sessions' = sessions /\ usedPorts' = usedPorts /\ obj' = obj)]_vars

\* C3: when the process of a tracked, active session exits with a non-zero
\* code, no signal, and no stop requested, the restart is scheduled.
C3_CrashSchedulesRestart ==
    [][\A o \in Objs :
          (/\ ProcessExit(o, "crash")
           /\ Tracked(o) /\ obj[o].isActive
           /\ stopPc[o] = "idle" /\ obj[o].signal = "none")
              => obj'[o].restartTimer]_vars

\* C4: once a stopTranscoding of a session has resolved, the session is not in
\* the registry, none of its sockets is open, and its process is not running
\* (a process that was sent a signal counts as not running).
C4_NoPartialTeardown ==
    \A o \in Objs :
        stopPc[o] = "done"
            => /\ ~Tracked(o)
               /\ ~SocketOpen(obj[o])
               /\ (obj[o].process = "running" => obj[o].signal # "none")

\* C5 (as stated): when a stopTranscoding of a tracked session ends, none of
\* the session's ports is in the reserved set.
C5_PortsAbsentWhenStopEnds ==
    [][\A o \in Objs :
          StopEnds(o) => PortsOf(obj[o]) \cap usedPorts' = {}]_vars

\* C5 (amended): from the synchronous part of a session's stopTranscoding on
\* (so also when the stop ends, however the process behaves, and when a
\* repeated stop ends by throwing) each port of the session is either absent
\* from the reserved set or recorded by a session created later, which
\* reserved it again.
C5_PortsReleasedByStop ==
    \A o \in Objs :
        /\ StopThrows(obj[o]) => stopPc[o] # "idle"
        /\ stopPc[o] # "idle"
             => \A p \in PortsOf(obj[o]) \cap usedPorts :
                    \E o2 \in Objs : o2 > o /\ p \in PortsOf(obj[o2])

\* A stop that ended by its grace timer (the process never exited), after
\* which the session's ports are reserved again by a later session.
C5_Witness ==
    \E o \in Objs :
        /\ stopPc[o] = "done" /\ obj[o].process = "running"
        /\ obj[o].rtpPorts.video # 0 /\ obj[o].rtpPorts.audio # 0
        /\ PortsOf(obj[o]) \cap usedPorts # {}

\* C6: when a startTranscoding that had created its session rejects, the id
\* is not tracked, none of the session's ports is reserved, none of its
\* sockets is open, and its process, if spawned, has been signalled.
C6_FailedStartRolledBack ==
    [][\A o \in Objs :
          (startPc[o] # "rejected" /\ startPc'[o] = "rejected")
              => /\ sessions'[obj[o].id] = 0
                 /\ PortsOf(obj[o]) \cap usedPorts' = {}
                 /\ ~SocketOpen(obj'[o])
                 /\ (obj'[o].process = "running" => obj'[o].signal # "none")]_vars

\* C7: when startTranscoding returns the playlist path, getSessionInfo(id)
\* finds the session, reports it active with the ports allocated for it, and
\* these ports are in the reserved set.
C7_StartedSessionReportedActive ==
    [][\A o \in Objs :
          (startPc[o] = "sync" /\ startPc'[o] = "returned")
              => /\ getSessionInfo(obj[o].id)'.found
                 /\ getSessionInfo(obj[o].id)'.isActive
                 /\ getSessionInfo(obj[o].id)'.rtpPorts = obj[o].rtpPorts
                 /\ PortsOf(obj[o]) \subseteq usedPorts']_vars

\* C8: a step removes from the reserved set only ports of sessions whose
\* first stopTranscoding it runs, and a tracked session that no stop has
\* reached keeps every reservation it has.
C8_StopReleasesOnlyOwnPorts ==
    [][/\ usedPorts \ usedPorts' \subseteq
             UNION {PortsOf(obj[b]) :
                        b \in {x \in Objs : stopPc[x] = "idle" /\ stopPc'[x] # "idle"}}
       /\ \A o \in Objs :
             (Tracked(o) /\ stopPc[o] = "idle" /\ stopPc'[o] = "idle")
                 => PortsOf(obj[o]) \cap usedPorts \subseteq usedPorts']_vars

\* A session B whose stop awaits the grace period, has one kind only (port 0
\* for the other), and whose ports another tracked session has reserved in
\* between: a repeated stopTranscoding(B) is enabled here.
C8_Witness ==
    \E b \in Objs, o \in Objs :
        /\ b # o /\ Tracked(b) /\ Tracked(o)
        /\ stopPc[b] = "wait" /\ stopPc[o] = "idle"
        /\ 0 \in {obj[b].rtpPorts.video, obj[b].rtpPorts.audio}
        /\ PortsOf(obj[b]) \cap PortsOf(obj[o]) # {}
        /\ PortsOf(obj[o]) \subseteq usedPorts

\* C9: every port getAvailablePort returns is even and at least the
\* configured base, and it and its successor are reserved when the call returns.
C9_PortsEvenAtOrAboveBase ==
    [][CreatesSession
          => \A k \in Kinds :
                LET port == obj'[Len(obj')].rtpPorts[k]
                IN  port # 0
                       => /\ port % 2 = 0
                          /\ port >= baseRtpPort
                          /\ {port, port + 1} \subseteq usedPorts']_vars

\* C10: the first session created on a fresh manager with both kinds gets
\* video (B, B+1) and audio (B+2, B+3); a second session created while the
\* first is tracked and no stop has reached it gets only ports >= B+4.
C10_FirstAndSecondAllocation ==
    [][CreatesSession
          => LET n == Len(obj')
                 s == obj'[n]
             IN  /\ (n = 1 /\ s.producers.video /\ s.producers.audio)
                       => /\ s.rtpPorts = [video |-> baseRtpPort, audio |-> baseRtpPort + 2]
                          /\ usedPorts' = baseRtpPort .. baseRtpPort + 3
                 /\ (/\ n = 2 /\ Tracked(1) /\ stopPc[1] = "idle"
                     /\ obj[1].producers.video /\ obj[1].producers.audio)
                       => \A p \in PortsOf(s) : p >= baseRtpPort + 4]_vars

\* The first session holds (B, B+1) and (B+2, B+3), is still tracked, and the
\* second, started next with both kinds, holds (B+4, B+5) and (B+6, B+7).
C10_Witness ==
    /\ Len(obj) = 2
    /\ Tracked(1) /\ Tracked(2) /\ stopPc[1] = "idle"
    /\ obj[1].rtpPorts = [video |-> baseRtpPort, audio |-> baseRtpPort + 2]
    /\ obj[2].rtpPorts = [video |-> baseRtpPort + 4, audio |-> baseRtpPort + 6]

----------------------------------------------------------------------------
\* C11: stopTranscoding with an id that is not tracked returns (the model has
\* no throw on this path) and changes nothing: the registry, the reserved set
\* and every session object (process, sockets, active flag) are as before.
C11_StopUnknownChangesNothing ==
    [][\A id \in Ids :
          StopUnknown(id)
              => (sessions' = sessions /\ usedPorts' = usedPorts /\ obj' = obj)]_vars

\* An id that is not tracked although a session object created under it is
\* still alive with its ports reserved again by a tracked, running session.
C11_Witness ==
    \E id \in Ids, z \in Objs, o \in Objs :
        /\ sessions[id] = 0 /\ obj[z].id = id
        /\ Tracked(o) /\ obj[o].isActive /\ obj[o].process = "running"
        /\ PortsOf(obj[z]) \cap PortsOf(obj[o]) # {}
        /\ PortsOf(obj[o]) \subseteq usedPorts

----------------------------------------------------------------------------
\* C17: when the 5 s grace timer of a stopTranscoding fires and the process
\* has not exited, the stop sends SIGKILL to it before it resolves.
C17_GraceTimeoutSendsSigkill ==
    [][\A t \in Objs :
          (StopGraceTimeout(t) /\ obj[t].process = "running")
              => obj'[t].signal = "SIGKILL"]_vars

\* C19: a stopTranscoding of a tracked session does not end with an error,
\* and when it ends the session's id is not in the registry.
C19_StopOfTrackedResolves ==
    [][/\ \A id \in Ids :
             StopTracked(id) => ~StopThrows(obj[sessions[id]])
       /\ \A o \in Objs :
             StopEnds(o) => sessions'[obj[o].id] = 0]_vars

----------------------------------------------------------------------------
\* The order the spec gives to the teardown; "throw" ends a call.
StepRank ==
    [markInactive |-> 1, closeConsumer |-> 2, closeTransport |-> 3,
     closeSocket |-> 4, releasePorts |-> 5, SIGTERM |-> 6, await |-> 7,
     delete |-> 8, throw |-> 9]

HasStep(steps, x) == \E i \in 1..Len(steps) : steps[i] = x

----------------------------------------------------------------------------
\* The sessions tracked when a cleanup() is called.
CleanupTargets == {sessions[i] : i \in Ids} \ {0}

\* The latest cleanup() resolves in this step, none of its stops has thrown and
\* no startTranscoding call was suspended between its call and now: either it
\* is called here and none of its stops has to wait, or the last stop it
\* awaited resolves here.
CleanupResolvesClean ==
    \/ /\ Cleanup
       /\ ~StartInFlight
       /\ \A o \in CleanupTargets : StopCompletesSync(obj[o])
    \/ /\ cleanupCall.awaits # {} /\ cleanupCall.clean
       /\ \A o \in cleanupCall.awaits : stopPc'[o] = "done"
       /\ ~StartInFlight'

\* C14: cleanup() runs stopTranscoding for every session tracked when it is
\* called, and when it resolves (no stop of it having failed, no start
\* running concurrently) the registry and the reserved set are empty.
C14_CleanupStopsAllAndEmpties ==
    [][/\ Cleanup => \A o \in CleanupTargets : stopPc'[o] # "idle"
       /\ CleanupResolvesClean
             => /\ \A i \in Ids : sessions'[i] = 0
                /\ usedPorts' = {}]_vars


\* C12: the packetsReceived and bytesReceived counters of a tracked session
\* never decrease in any step: a datagram on either kind, socket recovery, the
\* child's exit, recoverSession, or a stop.
C12_CountersNeverDecrease ==
    [][\A o \in Objs :
         Tracked(o) =>
            /\ ingest'[o].stats.packetsReceived >= ingest[o].stats.packetsReceived
            /\ ingest'[o].stats.bytesReceived >= ingest[o].stats.bytesReceived]_vars

\* A tracked session that counted datagrams, had its video socket replaced by
\* a recovery, and whose stop has begun, with its counters kept.
C12_Witness ==
    \E o \in Objs :
        /\ Tracked(o)
        /\ ingest[o].stats.packetsReceived = MaxPackets
        /\ ingest[o].stats.bytesReceived >= 2 * MaxPackets
        /\ ingest[o].replaced.video
        /\ stopPc[o] = "wait"


\* C20: no restart is scheduled by an exit for a session whose stop has been
\* requested, nor for an exit with code 0 or by SIGTERM or SIGKILL; and once
\* stopTranscoding has begun for a session, no new process is spawned for it.
C20_NoSpawnAfterStopBegan ==
    [][\A o \in Objs :
         /\ (obj'[o].restartTimer /\ ~obj[o].restartTimer) => stopPc[o] = "idle"
         /\ stopPc[o] # "idle" =>
                ~(ingest[o].recoverPc # "spawn" /\ ingest'[o].recoverPc = "spawn")]_vars


\* The step is a failure of session object a or a step of its recovery
\* handling: its child exits, or a socket error, the recovery timer or the
\* outcome of the new socket's bind.
FailureStepOf(a) ==
    \/ obj[a].process = "running" /\ obj'[a].process = "exited"
    \/ ingest'[a].recovery # ingest[a].recovery

\* C15: a process exit or a socket error in session A, and A's recovery
\* handling, leave every other tracked session B unchanged: B's active flag,
\* process handle, socket handles, reserved ports and stats.
C15_FailureLeavesOthersUnchanged ==
    [][\A a \in Objs, b \in Objs :
         (a # b /\ Tracked(b) /\ FailureStepOf(a)) =>
            /\ obj'[b].isActive = obj[b].isActive
            /\ obj'[b].process = obj[b].process
            /\ obj'[b].signal = obj[b].signal
            /\ obj'[b].rtpSockets = obj[b].rtpSockets
            /\ PortsOf(obj[b]) \cap usedPorts' = PortsOf(obj[b]) \cap usedPorts
            /\ ingest'[b].stats = ingest[b].stats]_vars


\* C16: waitForRtpFlow always resolves, never rejects, and no later than one
\* poll interval after its timeout, however many packets arrived; the
\* startTranscoding call then returns the manifest path.
C16_FlowWaitResolvesInTime ==
    /\ [][\A o \in Objs :
            startPc[o] = "sync" =>
               /\ ingest[o].flow.elapsed <= ingest[o].flow.timeoutMs
               /\ startPc'[o] # "sync" =>
                     /\ startPc'[o] = "returned"
                     /\ ingest'[o].flow.elapsed
                            <= ingest[o].flow.timeoutMs + CheckIntervalMs]_vars
    /\ \A o \in 1..MaxObj :
           (o \in Objs /\ startPc[o] = "sync") ~> (o \in Objs /\ startPc[o] = "returned")

\* A start whose flow check ran into its timeout, one interval past it, with
\* fewer packets than the threshold, and which returned.
C16_Witness ==
    \E o \in Objs :
        /\ startPc[o] = "returned"
        /\ ingest[o].flow.timeoutMs = SyncTimeoutBothMs
        /\ ingest[o].flow.elapsed = SyncTimeoutBothMs + CheckIntervalMs
        /\ ingest[o].stats.packetsReceived - ingest[o].flow.initial <= FlowPacketThreshold
        /\ ingest[o].stats.packetsReceived > 0


\* C13: a successful adaptive start with the 3 quality tiers results in 3
\* independent tier sessions with ids <id>_<tierName> (each in a registry and
\* a port pool of its own) and one master manifest with exactly 3 stream-info
\* entries, each carrying its tier's bitrate in kbps times 1000 as BANDWIDTH
\* and its tier's resolution.
C13_AdaptiveStartResult ==
    adaptive.pc = "returned" =>
        LET names == <<"720p", "480p", "360p">>
            kbps == <<2500, 1200, 800>>
            size == << <<1280, 720>>, <<854, 480>>, <<640, 360>> >>
        IN  /\ Len(adaptive.tiers) = 3
            /\ \A i \in 1..3 :
                  /\ adaptive.tiers[i].sessions = {<<adaptive.id, "_", names[i]>>}
                  /\ adaptive.tiers[i].session.id = <<adaptive.id, "_", names[i]>>
                  /\ \A j \in 1..3 :
                        i # j => adaptive.tiers[i].usedPorts
                                     \cap adaptive.tiers[j].usedPorts = {}
            /\ Len(adaptive.master) = 3
            /\ \A i \in 1..3 :
                  /\ adaptive.master[i].NAME = names[i]
                  /\ adaptive.master[i].BANDWIDTH = kbps[i] * 1000
                  /\ adaptive.master[i].RESOLUTION = size[i]

\* An adaptive start that has returned, with the child of one tier exited
\* since and the other two running.
C13_Witness ==
    /\ adaptive.pc = "returned"
    /\ adaptive.tiers[1].session.process = "exited"
    /\ adaptive.tiers[2].session.isActive
    /\ adaptive.tiers[3].session.process = "running"
    /\ Len(adaptive.master) = 3


\* C21: getAvailablePort returns the lowest port base + 2k (k >= 0) that is
\* not in the reserved set at the call, and reserves it and its successor in
\* the same step; so a released pair is handed out again by the next
\* reservation before any higher pair.
C21_LowestFreePairReserved ==
    [][usedPorts' \ usedPorts # {} =>
          \E k \in 0..MaxPairs :
              LET port == baseRtpPort + 2 * k
              IN  /\ port \notin usedPorts
                  /\ \A j \in 0..(k - 1) : baseRtpPort + 2 * j \in usedPorts
                  /\ usedPorts' = usedPorts \cup {port, port + 1}]_vars

\* Reservations after releases: the first and the third pair are held, the
\* second pair, released, is free below the third, and the fourth is free too.
C21_Witness ==
    /\ {baseRtpPort, baseRtpPort + 1, baseRtpPort + 4, baseRtpPort + 5} \subseteq usedPorts
    /\ baseRtpPort + 2 \notin usedPorts
    /\ baseRtpPort + 6 \notin usedPorts


\* C22: port reservation is bounded: no port above the valid UDP range
\* (65535) is ever reserved or handed to a session; a reservation that finds
\* every pair up to the ceiling reserved fails instead.
C22_NoPortAboveCeiling ==
    \A p \in usedPorts : p <= MaxUdpPort


\* C23: a session is reported as active through the registry (getSessionInfo,
\* getActiveSessions) only after all steps of its start have completed; no
\* query made while startTranscoding is still awaiting reports it as active.
C23_ActiveOnlyAfterStartCompleted ==
    \A id \in Ids :
        (id \in getActiveSessions \/ (getSessionInfo(id).found /\ getSessionInfo(id).isActive))
            => startPc[sessions[id]] = "returned"


\* C24: for each kind of a session, the ingest socket's bind to the session's
\* port has completed before the request that connects the producer to that
\* port completes.
C24_BoundBeforeConnected ==
    [][\A o \in Objs, k \in Kinds :
          (/\ startPc[o] \in {"connV", "connA"}
           /\ obj[o].consumers[k] = "none"
           /\ obj'[o].consumers[k] = "open")
              => ingest[o].bind[k] = "bound"]_vars


\* C25: every datagram received on a session's ingest socket, the one opened
\* at start or a replacement installed by socket recovery, increases
\* packetsReceived by 1 and bytesReceived by its length, and is written once,
\* unchanged, to the stdin of the session's process when that is writable.
C25_DatagramCountedAndForwarded ==
    [][\A o \in Objs :
          (ingest'[o].stats # ingest[o].stats \/ ingest'[o].written # ingest[o].written)
              => \E len \in PacketLengths :
                    /\ ingest'[o].stats =
                           [packetsReceived |-> ingest[o].stats.packetsReceived + 1,
                            bytesReceived |-> ingest[o].stats.bytesReceived + len]
                    /\ ingest'[o].written =
                           IF StdinWritable(obj[o])
                           THEN [writes |-> ingest[o].written.writes + 1,
                                 bytes |-> ingest[o].written.bytes + len]
                           ELSE ingest[o].written]_vars


\* C26: after an 'error' on a socket of an active session the recovery
\* attempt runs after the 1 s delay: a new socket is bound to the same port,
\* replaces the old one in the session's socket table, the old one is closed;
\* rtpPorts and the reserved set are unchanged by recovery; and when the
\* session is no longer active at the end of the delay, nothing is opened or
\* changed.
C26_RecoveryReplacesSocket ==
    [][\A o \in Objs, k \in Kinds :
          /\ (ingest[o].recovery[k] = "timer" /\ ingest'[o].recovery[k] # "timer")
                => /\ ingest'[o].recovery[k] = IF obj[o].isActive THEN "binding" ELSE "none"
                   /\ obj'[o] = obj[o]
                   /\ usedPorts' = usedPorts
          /\ (ingest[o].recovery[k] = "binding" /\ ingest'[o].recovery[k] # "binding")
                => /\ obj'[o].rtpSockets[k] = "open"
                   /\ ingest'[o].replaced[k]
                   /\ ingest'[o].bind[k] = "bound"
                   /\ obj'[o].rtpPorts = obj[o].rtpPorts
                   /\ usedPorts' = usedPorts]_vars


\* C27: socket recovery repeats without a cap while the session is active:
\* an 'error' on a replacement socket installed by a previous recovery is
\* followed, after the same delay, by another recovery attempt.
C27_ReplacementErrorRecovered ==
    [][\A o \in Objs, k \in Kinds :
          (/\ obj[o].isActive
           /\ obj[o].rtpSockets[k] = "open"
           /\ ingest[o].replaced[k]
           /\ ingest[o].recovery[k] = "none"
           /\ ingest'[o].recovery[k] # "none")
              => ingest'[o].recovery[k] = "timer"]_vars


\* C28: waitForRtpFlow resolves at the first poll at which at least 10 packets
\* have been counted since the wait began; a session with exactly 10 packets
\* since then does not have to wait for the timeout.
C28_TenPacketsAreFlow ==
    [][\A o \in Objs :
          (/\ startPc[o] = "sync"
           /\ ingest'[o].flow.elapsed # ingest[o].flow.elapsed
           /\ ingest[o].stats.packetsReceived - ingest[o].flow.initial
                  >= FlowPacketThreshold)
              => startPc'[o] = "returned"]_vars


\* The packets of the writes, in the order written.
RECURSIVE Flatten(_)
Flatten(ws) == IF ws = <<>> THEN <<>> ELSE Head(ws) \o Flatten(Tail(ws))

SeqRange(s) == {s[i] : i \in 1..Len(s)}

\* C29: the batched forwarder writes every packet handed to it at most once
\* and, while stdin is writable, exactly once, in arrival order, in one
\* concatenated write of at most 10 packets; a write happens as soon as 10
\* packets are pending or when the 5 ms timer armed by the first pending
\* packet fires; and whenever packets are pending after a call, a flush timer
\* is armed.
C29_BatchedForwarder ==
    /\ [](batch.session # 0 =>
            LET out == Flatten(batch.writes)
            IN  /\ \A i \in 1..Len(out), j \in 1..Len(out) : i < j => out[i] < out[j]
                /\ \A w \in 1..Len(batch.writes) :
                      Len(batch.writes[w]) \in 1..BATCH_SIZE
                /\ Len(batch.packets) < BATCH_SIZE
                /\ batch.packets # <<>> => batch.batchTimeout = "armed"
                /\ SeqRange(out) \cup SeqRange(batch.packets) \cup batch.dropped
                       = 1..batch.arrived
                /\ SeqRange(out) \cap batch.dropped = {}
                /\ \A i \in 1..Len(batch.packets) :
                      batch.packets[i] = batch.arrived - Len(batch.packets) + i)
    /\ [][batch.session # 0 =>
            /\ batch'.dropped # batch.dropped => ~StdinWritable(obj[batch.session])
            /\ (/\ batch.batchTimeout = "armed"
                /\ batch'.batchTimeout # "armed"
                /\ StdinWritable(obj[batch.session]))
                  => /\ Len(batch'.writes) = Len(batch.writes) + 1
                     /\ batch'.packets = <<>>]_vars

\* A full batch of 10 packets was written at once, and later a partial batch
\* by the timer; nothing was dropped.
C29_Witness ==
    /\ Len(batch.writes) = 2
    /\ Len(batch.writes[1]) = BATCH_SIZE
    /\ Len(batch.writes[2]) = 2
    /\ batch.dropped = {}
    /\ batch.batchTimeout = "null"


\* C30: the ports reserved for the tier sessions of an adaptive start never
\* collide: they are pairwise disjoint between the tiers of the call and
\* disjoint from the ports held by every other session started through the
\* same manager.
C30_TierPortsNeverCollide ==
    \A i \in 1..Len(adaptive.tiers) :
        /\ \A j \in 1..Len(adaptive.tiers) :
              i # j => adaptive.tiers[i].usedPorts \cap adaptive.tiers[j].usedPorts = {}
        /\ adaptive.tiers[i].usedPorts \cap usedPorts = {}


\* The directories an adaptive start has created so far: init() of the
\* transcoder of each quality creates outputDir (the empty path), and its
\* startTranscoding creates outputDir/<qualitySessionId>.
AdaptiveCreatedDirs ==
    (IF adaptive.tiers = <<>> THEN {} ELSE {<<>>})
        \cup {adaptive.tiers[i].session.id : i \in 1..Len(adaptive.tiers)}

\* C31: in the master manifest written by an adaptive start, the URL line of
\* each tier entry, resolved relative to the master manifest's location, is the
\* manifest path the tier's startTranscoding returned, and the directory the
\* master manifest is written into is one the adaptive start has created.
C31_MasterPointsAtTierManifests ==
    adaptive.pc = "returned" =>
        /\ \A i \in 1..Len(adaptive.master) :
              ResolveUri(MasterPlaylistDir(adaptive.id), adaptive.master[i].uri)
                  = adaptive.playlistUrls[i]
        /\ MasterPlaylistDir(adaptive.id) \in AdaptiveCreatedDirs


\* C32: when the start of a quality fails during startAdaptiveTranscoding,
\* the call rejects with that error (after the stop of the failed start's
\* catch block has ended), no master manifest is written and no later quality
\* is started; the failed quality's session is rolled back (removed from its
\* registry, its ports released, its sockets and consumers closed, its
\* process, if spawned, sent SIGTERM or exited); and the qualities started
\* before stay as they are, tracked with their ports reserved, changed by
\* nothing but the exit of their own process.
C32_TierFailureNoSiblingRollback ==
    [][/\ adaptive'.error # ""
             => /\ adaptive'.pc \in {"tierCatch", "rejected"}
                /\ adaptive'.master = <<>>
                /\ Len(adaptive'.tiers) = Len(adaptive.tiers)
                /\ adaptive.error # "" => adaptive'.error = adaptive.error
       /\ (adaptive'.error # "" /\ adaptive.pc # "rejected" /\ adaptive'.pc = "rejected")
             => /\ adaptive'.tiers = adaptive.tiers
                /\ \A n \in 1..Len(adaptive'.failed) :
                      LET f == adaptive'.failed[n]
                      IN  /\ f.sessions = {}
                          /\ f.usedPorts = {}
                          /\ ~f.session.isActive
                          /\ ~SocketOpen(f.session)
                          /\ \A k \in Kinds : f.session.consumers[k] # "open"
                          /\ f.session.process = "running" => f.session.signal = "SIGTERM"
       /\ \A i \in 1..Len(adaptive.tiers) :
             /\ adaptive'.tiers[i].sessions = {adaptive.tiers[i].session.id}
             /\ adaptive'.tiers[i].usedPorts = PortsOf(adaptive.tiers[i].session)
             /\ adaptive'.tiers[i].usedPorts # {}
             /\ adaptive'.tiers[i].session.rtpSockets = adaptive.tiers[i].session.rtpSockets
             /\ adaptive'.tiers[i].session # adaptive.tiers[i].session
                   => /\ adaptive.tiers[i].session.process = "running"
                      /\ adaptive'.tiers[i].session.process = "exited"]_vars

\* The third quality failed at the connection of its audio producer; its stop
\* ended by the grace timer with the child signalled; the call has rejected,
\* and the two qualities started before are running and active.
C32_Witness ==
    /\ adaptive.pc = "rejected" /\ adaptive.error = "connA"
    /\ Len(adaptive.tiers) = 2 /\ Len(adaptive.failed) = 1
    /\ adaptive.failed[1].session.process = "running"
    /\ adaptive.failed[1].session.signal = "SIGTERM"
    /\ \A i \in 1..2 :
          /\ adaptive.tiers[i].session.process = "running"
          /\ adaptive.tiers[i].session.isActive
          /\ SocketOpen(adaptive.tiers[i].session)


\* C33: round trip.  From a state in which id is not tracked and no call is
\* in progress, a startTranscoding(id), successful or failed, followed by a
\* completed stopTranscoding(id), with no other call made meanwhile, leaves
\* the reserved-port set and the set of tracked ids as they were before the
\* start.
C33_StartStopRoundTrip ==
    (trip.pc = "stopped" /\ ~CallInProgress)
        => /\ usedPorts = trip.usedPorts
           /\ TrackedIds = trip.tracked

\* A round trip that has ended: another session was tracked with its ports
\* reserved before it, the start returned with ports for both kinds, and the
\* stop has resolved.
C33_Witness ==
    /\ trip.pc = "stopped" /\ ~CallInProgress
    /\ trip.usedPorts # {} /\ trip.tracked # {}
    /\ Len(obj) = trip.objs + 1
    /\ startPc[Len(obj)] = "returned"
    /\ stopPc[Len(obj)] = "done"
    /\ obj[Len(obj)].rtpPorts.video # 0 /\ obj[Len(obj)].rtpPorts.audio # 0


\* C34: no leaked reservations.  In every state in which no startTranscoding
\* or stopTranscoding call is in progress, the reserved-port set is the union
\* of {P, P + 1} over the non-zero video and audio ports of the tracked
\* sessions; so it is empty when no session is tracked.
C34_NoLeakedReservations ==
    ~CallInProgress
        => usedPorts = UNION {PortsOf(obj[sessions[i]]) : i \in TrackedIds}


\* C35: whenever a startTranscoding(id) returns the playlist path, the session
\* it created is tracked in the registry under id at that moment (and so
\* reachable by a later stopTranscoding(id) or cleanup()), also when a
\* stopTranscoding(id) or a cleanup() ran while the start was suspended.
C35_ReturnedStartIsTracked ==
    [][\A o \in Objs :
          (startPc[o] # "returned" /\ startPc'[o] = "returned")
              => sessions'[obj[o].id] = o]_vars


\* C36: once its start has returned, a tracked session is reported active
\* (isActive, listed by getActiveSessions) only while its process runs: in no
\* reachable state, also after a recoverSession(id) that returned true for a
\* session whose process had exited on its own, is such a session active with
\* a process handle that is null or refers to an exited process.
C36_ActiveOnlyWhileProcessRuns ==
    \A id \in getActiveSessions :
        startPc[sessions[id]] = "returned" => obj[sessions[id]].process = "running"


C38_TierSessionsOwnedByManager ==
    [][/\ (adaptive.pc # "returned" /\ adaptive'.pc = "returned")
             => \A i \in 1..Len(Qualities) :
                   ManagerHas(QualitySessionId(adaptive.id, Qualities[i].name))'
       /\ CleanupResolvesClean
             => \A i \in 1..Len(adaptive.tiers) :
                   /\ adaptive'.tiers[i].session.process # "running"
                   /\ ~SocketOpen(adaptive'.tiers[i].session)]_vars


\* The stats getSessionInfo(id) reports for a tracked id.
SessionStats(id) == ingest[sessions[id]].stats

\* C39: the aggregate of healthCheck() agrees with the per-session views at
\* the same instant: activeSessions is the number of sessions
\* getActiveSessions() returns, and totalPacketsReceived and
\* totalBytesReceived are the sums of packetsReceived and bytesReceived over
\* the tracked sessions.
C39_HealthCheckConsistent ==
    /\ healthCheck.activeSessions = Cardinality(getActiveSessions)
    /\ healthCheck.totalPacketsReceived =
           Reduce([i \in Ids |-> IF sessions[i] = 0 THEN 0
                                 ELSE SessionStats(i).packetsReceived], TrackedIds)
    /\ healthCheck.totalBytesReceived =
           Reduce([i \in Ids |-> IF sessions[i] = 0 THEN 0
                                 ELSE SessionStats(i).bytesReceived], TrackedIds)


\* C40: a session's lastPacketTime changes only in a step in which a
\* datagram received on one of its ingest sockets is counted; no other event
\* (such as output of the process on stderr) modifies it, so that it is the
\* time of the latest datagram counted (0 when there was none).
C40_LastPacketTimeOnlyByDatagram ==
    [][\A o \in Objs :
          ingest'[o].lastPacketTime # ingest[o].lastPacketTime
              => /\ ingest'[o].stats.packetsReceived
                        = ingest[o].stats.packetsReceived + 1
                 /\ ingest'[o].lastPacketTime = now]_vars

====
